---- MODULE Spec2Model ----
(***************************************************************************)
(* Balloon dashboard core: the weather rate limiter and failure fallback   *)
(* (fetchWeatherData), ingestion (fetchCurrentBalloons, isValidCoordinate),*)
(* history matching (fetchBalloonHistory), the click handler that builds a *)
(* FlightPath (handleBalloonClick), the prediction (predictNextPosition),  *)
(* the danger classifier and the warning marker, and the retrying fetch of *)
(* the balloon service (fetchWithRetry, fetchLast24Hours).                 *)
(*                                                                         *)
(* Numbers: coordinates of the rate limiter are integers in thousandths of *)
(* a degree; coordinates of ingestion and history are whole degrees; time  *)
(* is in milliseconds.  The id string `balloon-${n}` is modelled by n.     *)
(***************************************************************************)
EXTENDS Integers, Sequences, FiniteSets, TLC

VARIABLES
    now,                  \* Date.now()
    apiKey,               \* process.env.NEXT_PUBLIC_WEATHER_API_KEY is set
    weatherRequestQueue,  \* location key -> time of the last request (0: no entry)
    calls,                \* the invocations of fetchWeatherData
    upstream,             \* what /api/balloons answers: the raw snapshot
    ingest,               \* the ingestion of that snapshot and its outcome
    histArgs,             \* fetchBalloonHistory(hours, currentPosition): its arguments
    hourResp,             \* per element of hours: what the upstream answered
    hourPoint,            \* per element of hours: what its promise resolved with
    history,              \* the promise of fetchBalloonHistory
    selectedBalloon,      \* Map state: id of the selected balloon (0: null)
    flightPaths,          \* Map state: balloon id -> FlightPath
    mapBounds,            \* Map state: the bounds to fit
    clicks,               \* the invocations of handleBalloonClick
    lastResolved,         \* the history the latest resumed invocation received
    path,                 \* predictNextPosition(positions): its argument
    predictCall,           \* predictNextPosition: its outcome
    seeded,               \* the predicted sequence the click handler builds from path
    weatherArg,           \* checkDangerConditions(weather): its argument
    verdict,              \* checkDangerConditions: the DangerCondition returned
    markerWeather,        \* weatherData[balloon.id] when the marker is rendered
    locationDanger,       \* isInDangerousArea(lat, lon, alt) of the balloon
    marker,               \* what AnimatedBalloonMarker and StatsPanel render
    retry,                \* one call of fetchBalloonData: fetchWithRetry and its outcome
    last24,               \* one call of fetchLast24Hours
    legacyHistory,         \* one call of the earlier fetchBalloonHistory(hours)
    drift,                 \* the wind-drift prediction of one position
    balloons,             \* the balloons prop of the Map
    batches,              \* the weather batches the effect has started
    weatherData,           \* the weatherData state of the Map
    rendering,             \* what loadData of components/Map.tsx has put on the map
    home                  \* the state of the Home page and its refreshes

weatherVars == <<apiKey, weatherRequestQueue, calls>>
ingestVars == <<upstream, ingest>>
historyVars == <<histArgs, hourResp, hourPoint, history>>
clickVars == <<selectedBalloon, flightPaths, mapBounds, clicks, lastResolved>>
predictVars == <<path, predictCall, seeded>>
dangerVars == <<weatherArg, verdict>>
markerVars == <<markerWeather, locationDanger, marker>>
retryVars == <<retry>>
last24Vars == <<last24>>
legacyVars == <<legacyHistory>>
driftVars == <<drift>>
batchVars == <<balloons, batches, weatherData>>
renderVars == <<rendering>>
homeVars == <<home>>
unitVars == <<predictVars, dangerVars, markerVars, retryVars, last24Vars, legacyVars,
             driftVars,
             batchVars,
             renderVars,
             homeVars>>

vars == <<now, apiKey, weatherRequestQueue, calls, upstream, ingest,
          histArgs, hourResp, hourPoint, history,
          selectedBalloon, flightPaths, mapBounds, clicks, lastResolved,
          path, predictCall, seeded, weatherArg, verdict,
          markerWeather, locationDanger, marker, retry, last24, legacyHistory,
          drift,
          balloons, batches, weatherData,
          rendering,
          home>>

----------------------------------------------------------------------------
(* Bounds of the model *)

MaxCalls == 3
MaxTime == 6500
StartTime == 5000
MaxEntries == 3
MaxHours == 2
MaxHistoryDelay == 500
MaxClicks == 3
MaxAnswered == 2
MaxPath == 3
MaxRetryTime == 4000
MaxFailing == 1

\* The amounts by which the clock is observed to advance between steps.
TickSteps == {250}
RetrySteps == {500}

----------------------------------------------------------------------------
(* JSON / JavaScript values *)

Num(n) == [t |-> "num", v |-> n]
Null == [t |-> "null", v |-> 0]
Str == [t |-> "str", v |-> 0]          \* a non-empty, non-numeric string
Undefined == [t |-> "undefined", v |-> 0]
NaN == [t |-> "nan", v |-> 0]

\* Number(x)
ToNumber(x) ==
    CASE x.t = "num" -> x
      [] x.t = "null" -> Num(0)
      [] OTHER -> NaN

\* !x is false
Truthy(x) ==
    CASE x.t = "num" -> x.v # 0
      [] x.t = "str" -> TRUE
      [] OTHER -> FALSE

IsNaN(x) == ToNumber(x).t = "nan"

----------------------------------------------------------------------------
(* Ingestion: fetchCurrentBalloons (utils/balloonUtils.ts and its earlier
   variant) and the filter of fetchWithRetry (services/balloonService.ts) *)

\* An element of the upstream array: a JSON array of values, a JSON object
\* with the fields lat, lon, alt (Undefined: absent), or a scalar.
Arr(xs) == [kind |-> "array", elems |-> xs]
Obj(lat, lon, alt) == [kind |-> "object", elems |-> <<lat, lon, alt>>]
Scalar == [kind |-> "scalar", elems |-> <<>>]

RawEntries ==
    {Arr(<<Num(10), Num(20), Num(5)>>),
     Arr(<<Num(-30), Num(40), Num(7)>>),
     Arr(<<Num(95), Num(20), Num(5)>>),
     Arr(<<Num(10), Num(200), Num(5)>>),
     Arr(<<Null, Num(20), Num(5)>>),
     Arr(<<Str, Num(20), Num(5)>>),
     Arr(<<Num(10), Num(20)>>),
     Obj(Num(10), Num(20), Num(5)),
     Obj(Undefined, Num(20), Num(5)),
     Scalar}

RECURSIVE SeqsUpTo(_, _)
SeqsUpTo(S, n) ==
    IF n = 0 THEN {<<>>}
    ELSE LET shorter == SeqsUpTo(S, n - 1)
         IN  shorter \cup {Append(q, x) : q \in {r \in shorter : Len(r) = n - 1}, x \in S}

\* What the upstream answers: a failure, JSON that is no array, or an array.
NoUpstream == [ok |-> FALSE, isArray |-> FALSE, data |-> <<>>]

Upstreams ==
    {NoUpstream, [ok |-> TRUE, isArray |-> FALSE, data |-> <<>>]}
    \cup {[ok |-> TRUE, isArray |-> TRUE, data |-> d] : d \in SeqsUpTo(RawEntries, MaxEntries)}

NullBalloon == [isNull |-> TRUE, id |-> 0, lat |-> Undefined, lon |-> Undefined, alt |-> Undefined]

\* `balloon-${index + 1}`, index counted from 0
BalloonId_zeroBased(index) == index

BalloonId(index) == index + 1

\* utils/balloonUtils.ts lines 18-34: the callback of data.map
UtilsEntry(balloon, index) ==
    IF balloon.kind # "array" \/ Len(balloon.elems) < 3
    THEN NullBalloon
    ELSE LET lat == ToNumber(balloon.elems[1])
             lon == ToNumber(balloon.elems[2])
             alt == ToNumber(balloon.elems[3])
         IN  IF lat.t = "nan" \/ lon.t = "nan" \/ alt.t = "nan"
             THEN NullBalloon
             ELSE [isNull |-> FALSE, id |-> BalloonId(index), lat |-> lat, lon |-> lon, alt |-> alt]

NotNull(b) == ~b.isNull

\* utils/balloonUtils.ts lines 18-35: data.map(...).filter(balloon => balloon !== null)
IngestUtils(data) ==
    SelectSeq([i \in 1..Len(data) |-> UtilsEntry(data[i], i - 1)], NotNull)

\* balloonService.ts lines 5-13, with coord = [lng, lat, alt]
IsValidCoordinate(coord) ==
    /\ coord.kind = "array"
    /\ Len(coord.elems) = 3
    /\ \A i \in 1..3 : coord.elems[i].t = "num"
    /\ coord.elems[1].v >= -180 /\ coord.elems[1].v <= 180
    /\ coord.elems[2].v >= -90 /\ coord.elems[2].v <= 90

\* balloonService.ts line 26: data.filter(isValidCoordinate); the result keeps
\* the raw triples, here with the index they had as id.
IngestService(data) ==
    LET tagged == [i \in 1..Len(data) |->
            IF IsValidCoordinate(data[i])
            THEN [isNull |-> FALSE, id |-> i, lat |-> data[i].elems[2],
                  lon |-> data[i].elems[1], alt |-> data[i].elems[3]]
            ELSE NullBalloon]
    IN  SelectSeq(tagged, NotNull)

\* x || 0
OrZero(x) == IF Truthy(x) THEN x ELSE Num(0)

\* balloon.lat etc.: a property of an object, undefined on an array or scalar
Field(balloon, i) == IF balloon.kind = "object" THEN balloon.elems[i] ELSE Undefined

\* The earlier fetchCurrentBalloons: every element becomes a balloon, absent
\* or falsy fields become 0.
IngestLegacy(data) ==
    [i \in 1..Len(data) |->
        [isNull |-> FALSE, id |-> i, lat |-> OrZero(Field(data[i], 1)),
         lon |-> OrZero(Field(data[i], 2)), alt |-> OrZero(Field(data[i], 3))]]

IdleIngest == [st |-> "idle", by |-> "none", rejected |-> FALSE, out |-> <<>>]

\* utils/balloonUtils.ts fetchCurrentBalloons: rejects when the response is
\* not ok or no array, else resolves with the balloons.
FetchCurrentBalloons ==
    /\ ingest.st = "idle"
    /\ ingest' = IF upstream.ok /\ upstream.isArray
                 THEN [st |-> "done", by |-> "utils", rejected |-> FALSE,
                       out |-> IngestUtils(upstream.data)]
                 ELSE [st |-> "done", by |-> "utils", rejected |-> TRUE, out |-> <<>>]
    /\ UNCHANGED <<now, weatherVars, upstream, historyVars, clickVars, unitVars>>

\* balloonService.ts fetchWithRetry, one attempt: throws when the response is
\* not ok, [] when the JSON is no array, else the valid triples.
FetchWithRetryAttempt ==
    /\ ingest.st = "idle"
    /\ ingest' = IF ~upstream.ok
                 THEN [st |-> "done", by |-> "service", rejected |-> TRUE, out |-> <<>>]
                 ELSE [st |-> "done", by |-> "service", rejected |-> FALSE,
                       out |-> IF upstream.isArray THEN IngestService(upstream.data) ELSE <<>>]
    /\ UNCHANGED <<now, weatherVars, upstream, historyVars, clickVars, unitVars>>

\* The earlier fetchCurrentBalloons; on any failure it resolves with its two
\* sample balloons.
SAMPLE_BALLOONS ==
    <<[isNull |-> FALSE, id |-> 1, lat |-> Num(41), lon |-> Num(-74), alt |-> Num(30000)],
      [isNull |-> FALSE, id |-> 2, lat |-> Num(34), lon |-> Num(-118), alt |-> Num(25000)]>>

FetchCurrentBalloonsLegacy ==
    /\ ingest.st = "idle"
    /\ ingest' = [st |-> "done", by |-> "legacy", rejected |-> FALSE,
                  out |-> IF upstream.ok /\ upstream.isArray
                          THEN IngestLegacy(upstream.data) ELSE SAMPLE_BALLOONS]
    /\ UNCHANGED <<now, weatherVars, upstream, historyVars, clickVars, unitVars>>


----------------------------------------------------------------------------
(* History matching: fetchBalloonHistory (utils/balloonUtils.ts) *)

HOUR_MS == 3600000
MATCH_DISTANCE == 5

\* The positions history is asked for.
Targets == {<<10, 20>>, <<2, 1>>}

\* The snapshots an hour can answer with.
Snapshots ==
    {<<>>,
     <<Arr(<<Num(10), Num(20), Num(5)>>)>>,
     <<Arr(<<Num(13), Num(24), Num(5)>>)>>,
     <<Arr(<<Num(14), Num(20), Num(5)>>)>>,
     <<Arr(<<Num(12), Num(22), Num(1)>>), Arr(<<Num(11), Num(21), Num(1)>>)>>,
     <<Arr(<<Num(11), Num(20), Num(1)>>), Arr(<<Num(10), Num(21), Num(1)>>)>>,
     <<Arr(<<Str, Num(20), Num(1)>>), Scalar, Arr(<<Num(10)>>), Arr(<<Num(9), Num(20)>>)>>,
     <<Arr(<<Null, Null, Num(1)>>), Arr(<<Num(4), Num(3), Num(1)>>)>>,
     <<Arr(<<Null, Null, Num(1)>>)>>}

\* What /api/balloons?hour=hh answers: a failure (network error, non-2xx or
\* invalid JSON), JSON that is no array, or a snapshot.
HourFailed == [ok |-> FALSE, isArray |-> FALSE, data |-> <<>>]

HourResponses ==
    {HourFailed, [ok |-> TRUE, isArray |-> FALSE, data |-> <<>>]}
    \cup {[ok |-> TRUE, isArray |-> TRUE, data |-> d] : d \in Snapshots}

Square(x) == x * x

\* Math.pow(lat - currentLat, 2) + Math.pow(lon - currentLon, 2); the code
\* compares the square roots, which order as their squares do.
DistanceSq(lat, lon, target) == Square(lat - target[1]) + Square(lon - target[2])

NoClosest == [found |-> FALSE, lat |-> 0, lon |-> 0, d2 |-> 0]

\* A later position at the same distance replaces the earlier one
Closer_orEqual(d2, best) == ~best.found \/ d2 <= best.d2

\* if (distance < minDistance), minDistance starting at Infinity
Closer(d2, best) == ~best.found \/ d2 < best.d2

\* Lines 66-80: one turn of the loop over data
VisitPosition(pos, target, best) ==
    IF pos.kind = "array" /\ Len(pos.elems) >= 2
    THEN LET lat == ToNumber(pos.elems[1])
             lon == ToNumber(pos.elems[2])
         IN  IF lat.t # "nan" /\ lon.t # "nan"
                /\ Closer(DistanceSq(lat.v, lon.v, target), best)
             THEN [found |-> TRUE, lat |-> lat.v, lon |-> lon.v,
                   d2 |-> DistanceSq(lat.v, lon.v, target)]
             ELSE best
    ELSE best

RECURSIVE ClosestFrom(_, _, _, _)
ClosestFrom(data, i, target, best) ==
    IF i > Len(data) THEN best
    ELSE ClosestFrom(data, i + 1, target, VisitPosition(data[i], target, best))

\* Lines 63-80
ClosestPosition(data, target) == ClosestFrom(data, 1, target, NoClosest)

\* if (closestPosition && minDistance < 5)
WithinDistance(best) == best.found /\ best.d2 < Square(MATCH_DISTANCE)

NullPoint == [isNull |-> TRUE, lat |-> 0, lon |-> 0, timestamp |-> 0]

\* Lines 50-94: what the promise of one hour resolves with, the response
\* having arrived at time t
HourResult(resp, hour, target, t) ==
    IF ~resp.ok \/ ~resp.isArray
    THEN NullPoint
    ELSE LET best == ClosestPosition(resp.data, target)
         IN  IF WithinDistance(best)
             THEN [isNull |-> FALSE, lat |-> best.lat, lon |-> best.lon,
                   timestamp |-> t - hour * HOUR_MS]
             ELSE NullPoint

\* sort((a, b) => a.timestamp - b.timestamp): stable, ascending
RECURSIVE InsertByTimestamp(_, _)
InsertByTimestamp(sorted, p) ==
    IF sorted = <<>> THEN <<p>>
    ELSE IF sorted[Len(sorted)].timestamp <= p.timestamp
         THEN Append(sorted, p)
         ELSE Append(InsertByTimestamp(SubSeq(sorted, 1, Len(sorted) - 1), p),
                     sorted[Len(sorted)])

RECURSIVE SortByTimestamp(_)
SortByTimestamp(ps) ==
    IF ps = <<>> THEN <<>>
    ELSE InsertByTimestamp(SortByTimestamp(SubSeq(ps, 1, Len(ps) - 1)), ps[Len(ps)])

PointNotNull(p) == ~p.isNull

\* Lines 97-98 without the sort of line 99
HistoryPoints_unsorted(points) == SelectSeq(points, PointNotNull)

\* Lines 97-99
HistoryPoints(points) == SortByTimestamp(SelectSeq(points, PointNotNull))

Pending == [isNull |-> TRUE, lat |-> 0, lon |-> 0, timestamp |-> -1]

NoHistoryArgs == [hours |-> <<>>, target |-> <<0, 0>>]
NoHistory == [st |-> "idle", rejected |-> FALSE, positions |-> <<>>]

HistoryIdle ==
    /\ histArgs = NoHistoryArgs
    /\ hourResp = <<>>
    /\ hourPoint = <<>>
    /\ history = NoHistory

\* Lines 44-95: the call; hours.map starts one request per element.
CallFetchBalloonHistory ==
    /\ history.st = "idle"
    /\ history' = [history EXCEPT !.st = "running"]
    /\ hourResp' = [i \in 1..Len(histArgs.hours) |-> HourFailed]
    /\ hourPoint' = [i \in 1..Len(histArgs.hours) |-> Pending]
    /\ UNCHANGED <<now, weatherVars, ingestVars, histArgs, clickVars, unitVars>>

\* Lines 54-94: the request of the i-th element of hours is answered.
HourCompletes(i, resp) ==
    /\ history.st = "running"
    /\ i \in 1..Len(histArgs.hours)
    /\ hourPoint[i] = Pending
    /\ hourResp' = [hourResp EXCEPT ![i] = resp]
    /\ hourPoint' = [hourPoint EXCEPT
                        ![i] = HourResult(resp, histArgs.hours[i], histArgs.target, now)]
    /\ UNCHANGED <<now, weatherVars, ingestVars, histArgs, history, clickVars, unitVars>>

\* Lines 97-104: Promise.all is fulfilled.
HistorySettles ==
    /\ history.st = "running"
    /\ \A i \in 1..Len(histArgs.hours) : hourPoint[i] # Pending
    /\ history' = [st |-> "done", rejected |-> FALSE, positions |-> HistoryPoints(hourPoint)]
    /\ UNCHANGED <<now, weatherVars, ingestVars, histArgs, hourResp, hourPoint, clickVars, unitVars>>

\* Time passes while the requests are in flight.
HistoryTick(d) ==
    /\ history.st = "running"
    /\ now + d <= StartTime + MaxHistoryDelay
    /\ now' = now + d
    /\ UNCHANGED <<weatherVars, ingestVars, historyVars, clickVars, unitVars>>

----------------------------------------------------------------------------
(* The click handler of the Map component: handleBalloonClick *)

CLICK_HOURS == 6

\* The balloons on the map (the balloons prop).
Balloons ==
    {[id |-> 1, lat |-> 10, lon |-> 20, alt |-> 5],
     [id |-> 2, lat |-> 2, lon |-> 1, alt |-> 5]}

BalloonIds == {b.id : b \in Balloons}
BalloonOf(id) == CHOOSE b \in Balloons : b.id = id

\* What an hour answers while a click is waiting for its history.
ClickHourResponses ==
    {HourFailed,
     [ok |-> TRUE, isArray |-> TRUE, data |-> <<Arr(<<Num(11), Num(21), Num(1)>>)>>],
     [ok |-> TRUE, isArray |-> TRUE, data |-> <<Arr(<<Num(12), Num(22), Num(1)>>)>>]}

\* The answers of the six hours of one click: at most MaxAnswered of them
\* succeed.
ClickAnswers ==
    {resps \in [1..CLICK_HOURS -> ClickHourResponses] :
        Cardinality({h \in 1..CLICK_HOURS : resps[h].ok}) <= MaxAnswered}

\* Array.from({ length: 6 }, (_, i) => i + 1)
ClickHours == [i \in 1..CLICK_HOURS |-> i]

\* What fetchBalloonHistory(hours, currentPosition) resolves with when hour
\* hours[i] answers resps[i]; the answers arrive within the same hour, so the
\* timestamps are taken at one reading of the clock.
HistoryOf(hours, resps, target, t) ==
    HistoryPoints([i \in 1..Len(hours) |-> HourResult(resps[i], hours[i], target, t)])

LatLon(p) == <<p.lat, p.lon>>

\* history.positions.forEach(pos => pastPath.unshift([pos.lat, pos.lon]))
RECURSIVE UnshiftAll(_, _, _)
UnshiftAll(pastPath, positions, i) ==
    IF i > Len(positions) THEN pastPath
    ELSE UnshiftAll(<<LatLon(positions[i])>> \o pastPath, positions, i + 1)

\* Lines 440-443: the current position, then every matched position unshifted
PastPath(positions, balloon) == UnshiftAll(<<LatLon(balloon)>>, positions, 1)

\* positions.slice(-2)
LastTwo(positions) ==
    IF Len(positions) <= 2 THEN positions
    ELSE SubSeq(positions, Len(positions) - 1, Len(positions))

NoPrediction == [defined |-> FALSE, lat |-> 0, lon |-> 0]

\* The delta taken from the first point of the path instead of the second last
PredictNextPosition_fromFirst(positions) ==
    IF Len(positions) < 2 THEN NoPrediction
    ELSE LET last == positions[Len(positions)]
             first == positions[1]
         IN  [defined |-> TRUE,
              lat |-> last.lat + (last.lat - first.lat),
              lon |-> last.lon + (last.lon - first.lon)]

\* if (positions.length < 1) return undefined, a path of one point predicting
\* that point
PredictNextPosition_onePoint(positions) ==
    IF Len(positions) < 1 THEN NoPrediction
    ELSE LET last == positions[Len(positions)]
             secondLast == positions[IF Len(positions) = 1 THEN 1 ELSE Len(positions) - 1]
         IN  [defined |-> TRUE,
              lat |-> last.lat + (last.lat - secondLast.lat),
              lon |-> last.lon + (last.lon - secondLast.lon)]

\* utils/balloonUtils.ts lines 189-202
PredictNextPosition(positions) ==
    IF Len(positions) < 2 THEN NoPrediction
    ELSE LET last == positions[Len(positions)]
             secondLast == positions[Len(positions) - 1]
         IN  [defined |-> TRUE,
              lat |-> last.lat + (last.lat - secondLast.lat),
              lon |-> last.lon + (last.lon - secondLast.lon)]

\* Lines 445-452
PredictedPath(positions, balloon) ==
    LET prediction == PredictNextPosition(
            LastTwo(positions) \o <<[lat |-> balloon.lat, lon |-> balloon.lon, timestamp |-> now]>>)
    IN  IF prediction.defined
        THEN <<LatLon(balloon), <<prediction.lat, prediction.lon>>>>
        ELSE <<>>

Min(S) == CHOOSE x \in S : \A y \in S : x <= y
Max(S) == CHOOSE x \in S : \A y \in S : x >= y

NoBounds == [set |-> FALSE, south |-> 0, west |-> 0, north |-> 0, east |-> 0]

\* L.latLngBounds(points)
BoundsOf(points) ==
    LET lats == {points[i][1] : i \in 1..Len(points)}
        lons == {points[i][2] : i \in 1..Len(points)}
    IN  [set |-> TRUE, south |-> Min(lats), west |-> Min(lons),
         north |-> Max(lats), east |-> Max(lons)]

NoPath == [present |-> FALSE, past |-> <<>>, predicted |-> <<>>]
NoneResolved == [set |-> FALSE, balloon |-> 0, positions |-> <<>>]

MapInit ==
    /\ selectedBalloon = 0
    /\ flightPaths = [id \in BalloonIds |-> NoPath]
    /\ mapBounds = NoBounds
    /\ clicks = <<>>
    /\ lastResolved = NoneResolved

\* Lines 418-436: a click on a balloon, up to the await.  A click on the
\* selected balloon deselects it and deletes its path.
ClickBalloon(balloon) ==
    /\ Len(clicks) < MaxClicks
    /\ IF selectedBalloon = balloon.id
       THEN /\ selectedBalloon' = 0
            /\ flightPaths' = [flightPaths EXCEPT ![balloon.id] = NoPath]
            /\ mapBounds' = NoBounds
            /\ clicks' = Append(clicks, [balloon |-> balloon.id, st |-> "returned"])
       ELSE /\ selectedBalloon' = balloon.id
            /\ clicks' = Append(clicks, [balloon |-> balloon.id, st |-> "awaiting"])
            /\ UNCHANGED <<flightPaths, mapBounds>>
    /\ UNCHANGED <<now, weatherVars, ingestVars, historyVars, lastResolved, unitVars>>

\* Lines 436-476: the history arrives and the invocation resumes.
HistoryResolves(i, resps) ==
    /\ i \in 1..Len(clicks)
    /\ clicks[i].st = "awaiting"
    /\ LET balloon == BalloonOf(clicks[i].balloon)
           positions == HistoryOf(ClickHours, resps, <<balloon.lat, balloon.lon>>, now)
           pastPath == PastPath(positions, balloon)
           predictedPath == PredictedPath(positions, balloon)
       IN  /\ lastResolved' = [set |-> TRUE, balloon |-> balloon.id, positions |-> positions]
           /\ IF Len(positions) > 0
              THEN /\ flightPaths' = [flightPaths EXCEPT ![balloon.id] =
                          [present |-> TRUE, past |-> pastPath, predicted |-> predictedPath]]
                   /\ mapBounds' = BoundsOf(pastPath \o predictedPath)
              ELSE UNCHANGED <<flightPaths, mapBounds>>
    /\ clicks' = [clicks EXCEPT ![i].st = "returned"]
    /\ UNCHANGED <<now, weatherVars, ingestVars, historyVars, selectedBalloon, unitVars>>

----------------------------------------------------------------------------
(* predictNextPosition on its own, and the seeding of the prediction *)

\* The points a path is made of.
PathPoints ==
    {[lat |-> 10, lon |-> 20, timestamp |-> 0],
     [lat |-> 11, lon |-> 22, timestamp |-> 0],
     [lat |-> 12, lon |-> 22, timestamp |-> 0],
     [lat |-> -5, lon |-> 179, timestamp |-> 0]}

Paths == SeqsUpTo(PathPoints, MaxPath)

NotPredicted == [st |-> "idle", threw |-> FALSE, value |-> NoPrediction, given |-> <<>>]

\* An implementation that takes the last point off the array it is given
PositionsAfter_popped(positions) ==
    IF Len(positions) = 0 THEN positions ELSE SubSeq(positions, 1, Len(positions) - 1)

\* The array passed to predictNextPosition once it has returned: the body
\* reads positions.length and two elements and assigns to none of them.
PositionsAfter(positions) == positions
NotSeeded == [st |-> "idle", stored |-> FALSE, predicted |-> <<>>]

PredictIdle ==
    /\ path = <<>>
    /\ predictCall = NotPredicted
    /\ seeded = NotSeeded

\* predictNextPosition(path) is called and returns.
CallPredictNextPosition ==
    /\ predictCall.st = "idle"
    /\ predictCall' = [st |-> "returned", threw |-> FALSE,
                       value |-> PredictNextPosition(path), given |-> path]
    /\ path' = PositionsAfter(path)
    /\ UNCHANGED <<now, weatherVars, ingestVars, historyVars, clickVars, seeded, dangerVars, markerVars, retryVars, last24Vars, legacyVars,
                   driftVars,
                   batchVars,
                   renderVars,
                   homeVars>>

\* part_001 lines 439-466 with history.positions = path: a FlightPath is
\* stored when the history is not empty, its predicted sequence seeded with
\* the last two history points and the balloon's position.
SeedPrediction(balloon) ==
    /\ seeded.st = "idle"
    /\ seeded' = IF Len(path) > 0
                 THEN [st |-> "done", stored |-> TRUE,
                       predicted |-> PredictedPath(path, balloon)]
                 ELSE [st |-> "done", stored |-> FALSE, predicted |-> <<>>]
    /\ UNCHANGED <<now, weatherVars, ingestVars, historyVars, clickVars, path, predictCall, dangerVars, markerVars, retryVars, last24Vars, legacyVars,
                   driftVars,
                   batchVars,
                   renderVars,
                   homeVars>>


----------------------------------------------------------------------------
(* fetchWeatherData: rate limiter and fallback *)

MIN_REQUEST_INTERVAL == 1000

\* Math.round(x * 100) for x given in thousandths: floor(m / 10 + 1/2)
RoundHundredths(m) == (m + 5) \div 10

\* A key of one decimal only.
LocationKey_oneDecimal(lat, lon) == <<(lat + 50) \div 100, (lon + 50) \div 100>>

LocationKey(lat, lon) == <<RoundHundredths(lat), RoundHundredths(lon)>>

\* The coordinates weather is asked for: the first two round to the same key,
\* the third to a key that differs from it in the second decimal of lat only.
Coords == {<<1234, 5000>>, <<1231, 5004>>, <<1236, 5000>>}

Keys == {LocationKey(c[1], c[2]) : c \in Coords}

DefaultWeather == [temperature |-> Num(20), pressure |-> Num(1013)]

\* The upstream responses: a network failure, a non-2xx status, a body that is
\* not JSON, JSON null, and objects with or without main / main.temp /
\* main.pressure of several types.
Payloads ==
    {[isNull |-> TRUE, hasMain |-> FALSE, temp |-> Undefined, pressure |-> Undefined],
     [isNull |-> FALSE, hasMain |-> FALSE, temp |-> Undefined, pressure |-> Undefined]}
    \cup {[isNull |-> FALSE, hasMain |-> TRUE, temp |-> tp[1], pressure |-> tp[2]] :
            tp \in {<<Num(-35), Num(1000)>>, <<Num(0), Num(1013)>>,
                    <<Undefined, Num(1000)>>, <<Num(10), Undefined>>,
                    <<Str, Num(1000)>>, <<Num(10), Null>>}}

NoPayload == [isNull |-> TRUE, hasMain |-> FALSE, temp |-> Undefined, pressure |-> Undefined]

Responses ==
    {[net |-> "error", ok |-> FALSE, status |-> 0, json |-> FALSE, data |-> NoPayload],
     [net |-> "ok", ok |-> FALSE, status |-> 429, json |-> TRUE, data |-> NoPayload],
     [net |-> "ok", ok |-> FALSE, status |-> 500, json |-> FALSE, data |-> NoPayload],
     [net |-> "ok", ok |-> TRUE, status |-> 200, json |-> FALSE, data |-> NoPayload]}
    \cup {[net |-> "ok", ok |-> TRUE, status |-> 200, json |-> TRUE, data |-> p] :
            p \in Payloads}

\* data.main?.temp and data.main?.pressure
MainTemp(data) == IF data.hasMain THEN data.temp ELSE Undefined
MainPressure(data) == IF data.hasMain THEN data.pressure ELSE Undefined

\* Whether the try block throws once the response is in.
WeatherThrows(resp) ==
    \/ resp.net = "error"                       \* await fetch rejects
    \/ ~resp.ok                                 \* 429 / request failed
    \/ ~resp.json                               \* response.json() rejects
    \/ resp.data.isNull                         \* null.main: TypeError
    \/ ~Truthy(MainTemp(resp.data))
    \/ ~Truthy(MainPressure(resp.data))

\* What the promise of fetchWeatherData settles with for a response.
WeatherResult(resp) ==
    IF WeatherThrows(resp)
    THEN [rejected |-> FALSE, value |-> DefaultWeather]
    ELSE [rejected |-> FALSE,
          value |-> [temperature |-> ToNumber(resp.data.temp),
                     pressure |-> ToNumber(resp.data.pressure)]]

NoResult == [rejected |-> FALSE, value |-> [temperature |-> Undefined, pressure |-> Undefined]]

IdleCall ==
    [st |-> "idle", lat |-> 0, lon |-> 0, calledAt |-> 0, wakeAt |-> 0,
     dispatchedAt |-> 0, resp |-> CHOOSE r \in Responses : r.net = "error",
     result |-> NoResult]

CallIds == 1..MaxCalls

KeyOf(c) == LocationKey(calls[c].lat, calls[c].lon)

\* Waiting for the time already elapsed instead of the remainder.
WaitTime_elapsed(timeSinceLastRequest) == timeSinceLastRequest

\* MIN_REQUEST_INTERVAL - timeSinceLastRequest
WaitTime(timeSinceLastRequest) == MIN_REQUEST_INTERVAL - timeSinceLastRequest

\* Lines 116-137 up to the first suspension: without an API key the call
\* throws into its catch; within the interval it arms the timer; otherwise it
\* records the time and dispatches the request.
CallFetchWeatherData(c, lat, lon) ==
    /\ calls[c].st = "idle"
    /\ \A d \in CallIds : d < c => calls[d].st # "idle"
    /\ LET key == LocationKey(lat, lon)
           lastRequestTime == weatherRequestQueue[key]
           timeSinceLastRequest == now - lastRequestTime
           called == [calls[c] EXCEPT !.lat = lat, !.lon = lon, !.calledAt = now]
       IN  IF ~apiKey
           THEN /\ calls' = [calls EXCEPT ![c] =
                        [called EXCEPT !.st = "done",
                                       !.result = [rejected |-> FALSE, value |-> DefaultWeather]]]
                /\ UNCHANGED weatherRequestQueue
           ELSE IF timeSinceLastRequest < MIN_REQUEST_INTERVAL
           THEN /\ calls' = [calls EXCEPT ![c] =
                        [called EXCEPT !.st = "waiting",
                                       !.wakeAt = now + WaitTime(timeSinceLastRequest)]]
                /\ UNCHANGED weatherRequestQueue
           ELSE /\ calls' = [calls EXCEPT ![c] =
                        [called EXCEPT !.st = "fetching", !.dispatchedAt = now]]
                /\ weatherRequestQueue' = [weatherRequestQueue EXCEPT ![key] = now]
    /\ UNCHANGED <<now, apiKey, ingestVars, historyVars, clickVars, unitVars>>

\* Lines 131-137: the setTimeout of a waiting call has fired (at its time or
\* later); the call records the time and dispatches the request.
TimerFires(c) ==
    /\ calls[c].st = "waiting"
    /\ now >= calls[c].wakeAt
    /\ weatherRequestQueue' = [weatherRequestQueue EXCEPT ![KeyOf(c)] = now]
    /\ calls' = [calls EXCEPT ![c].st = "fetching", ![c].dispatchedAt = now]
    /\ UNCHANGED <<now, apiKey, ingestVars, historyVars, clickVars, unitVars>>

\* Lines 137-172: the upstream answers and the promise settles.
FetchCompletes(c, resp) ==
    /\ calls[c].st = "fetching"
    /\ calls' = [calls EXCEPT ![c].st = "done", ![c].resp = resp,
                              ![c].result = WeatherResult(resp)]
    /\ UNCHANGED <<now, apiKey, weatherRequestQueue, ingestVars, historyVars, clickVars, unitVars>>

Tick(d) ==
    /\ now + d <= MaxTime
    /\ now' = now + d
    /\ UNCHANGED <<weatherVars, ingestVars, historyVars, clickVars, unitVars>>

----------------------------------------------------------------------------
(* The danger classifier: checkDangerConditions *)

DANGEROUS_TEMP == -30
DANGEROUS_PRESSURE == 500
LEGACY_DANGEROUS_TEMP == -40
LEGACY_DANGEROUS_PRESSURE == 300

\* The readings a WeatherData can hold: numbers, NaN among them.
Temperatures ==
    {Num(-41), Num(-40), Num(-35), Num(-31), Num(-30), Num(-29), Num(-20), Num(10),
     Num(20), NaN}
Pressures ==
    {Num(299), Num(300), Num(499), Num(500), Num(501), Num(1000), Num(1013), NaN}

WeatherReadings == [temperature : Temperatures, pressure : Pressures]

\* x <= limit on JavaScript numbers
Below_orEqual(x, limit) == x.t = "num" /\ x.v <= limit

\* x < limit on JavaScript numbers: false when x is NaN
Below(x, limit) == x.t = "num" /\ x.v < limit

NoReason == [set |-> FALSE, about |-> "none", value |-> Undefined]

\* { isDangerous: true } of the cold branch without its reason
ColdVerdict_noReason(weather) == [isDangerous |-> TRUE, reason |-> NoReason]

\* { isDangerous: true, reason: `Extreme cold temperature: ...` }
ColdVerdict(weather) ==
    [isDangerous |-> TRUE,
     reason |-> [set |-> TRUE, about |-> "temperature", value |-> weather.temperature]]

\* { isDangerous: true, reason: `Dangerously low pressure: ...` }
PressureVerdict(weather) ==
    [isDangerous |-> TRUE,
     reason |-> [set |-> TRUE, about |-> "pressure", value |-> weather.pressure]]

\* { isDangerous: false }
SafeVerdict == [isDangerous |-> FALSE, reason |-> NoReason]

\* The two conditions in the other order
DangerConditions_pressureFirst(weather, dangerousTemp, dangerousPressure) ==
    IF Below(weather.pressure, dangerousPressure) THEN PressureVerdict(weather)
    ELSE IF Below(weather.temperature, dangerousTemp) THEN ColdVerdict(weather)
    ELSE SafeVerdict

\* The body shared by the two versions of checkDangerConditions
DangerConditions(weather, dangerousTemp, dangerousPressure) ==
    IF Below(weather.temperature, dangerousTemp) THEN ColdVerdict(weather)
    ELSE IF Below(weather.pressure, dangerousPressure) THEN PressureVerdict(weather)
    ELSE SafeVerdict

\* Thresholds that reach the fallback sample of the Map
CheckDangerConditions_stricter(weather) == DangerConditions(weather, -20 + 1, 500 + 1)

\* utils/balloonUtils.ts lines 175-187
CheckDangerConditions(weather) ==
    DangerConditions(weather, DANGEROUS_TEMP, DANGEROUS_PRESSURE)

\* The earlier version of the utilities: thresholds -40 and 300
CheckDangerConditionsLegacy(weather) ==
    DangerConditions(weather, LEGACY_DANGEROUS_TEMP, LEGACY_DANGEROUS_PRESSURE)

NoVerdict == [st |-> "idle", by |-> "none", value |-> SafeVerdict]

DangerIdle ==
    /\ weatherArg = DefaultWeather
    /\ verdict = NoVerdict

CallCheckDangerConditions ==
    /\ verdict.st = "idle"
    /\ verdict' = [st |-> "returned", by |-> "utils", value |-> CheckDangerConditions(weatherArg)]
    /\ UNCHANGED <<now, weatherVars, ingestVars, historyVars, clickVars, predictVars, weatherArg, markerVars, retryVars, last24Vars, legacyVars,
                   driftVars,
                   batchVars,
                   renderVars,
                   homeVars>>

CallCheckDangerConditionsLegacy ==
    /\ verdict.st = "idle"
    /\ verdict' = [st |-> "returned", by |-> "legacy",
                   value |-> CheckDangerConditionsLegacy(weatherArg)]
    /\ UNCHANGED <<now, weatherVars, ingestVars, historyVars, clickVars, predictVars, weatherArg, markerVars, retryVars, last24Vars, legacyVars,
                   driftVars,
                   batchVars,
                   renderVars,
                   homeVars>>


----------------------------------------------------------------------------
(* The warning of a balloon: Map, AnimatedBalloonMarker and StatsPanel *)

\* weatherData[balloon.id] before the weather of the balloon has arrived
NoWeather == [present |-> FALSE, reading |-> DefaultWeather]

MarkerWeathers == {NoWeather} \cup {[present |-> TRUE, reading |-> w] : w \in WeatherReadings}

\* isInDangerousArea(lat, lon, alt): the DangerVerdict of the geofence, whose
\* reason is set when it is dangerous.
LocationVerdicts ==
    {SafeVerdict,
     [isDangerous |-> TRUE, reason |-> [set |-> TRUE, about |-> "location", value |-> Undefined]]}

\* isDangerous && locationDanger.isDangerous
ShowWarning_both(isDangerous, location) == isDangerous /\ location.isDangerous

\* Line 283: isDangerous || locationDanger.isDangerous
ShowWarning(isDangerous, location) == isDangerous \/ location.isDangerous

\* Lines 379-387 and 538-539: weather?.isDangerous || false
WeatherDanger(weather) ==
    weather.present /\ CheckDangerConditions(weather.reading).isDangerous

\* Line 284
WarningReason(weather, location) ==
    IF location.isDangerous THEN location.reason
    ELSE IF weather.present THEN CheckDangerConditions(weather.reading).reason
    ELSE NoReason

\* Lines 119-121: whether StatsPanel counts the balloon in dangerCount
CountedDangerous(weather, location) ==
    (IF weather.present THEN CheckDangerConditions(weather.reading).isDangerous ELSE FALSE)
    \/ location.isDangerous

NotRendered ==
    [st |-> "idle", showWarning |-> FALSE, warningReason |-> NoReason, counted |-> FALSE]

MarkerIdle ==
    /\ markerWeather = NoWeather
    /\ locationDanger = SafeVerdict
    /\ marker = NotRendered

\* The Map renders the balloon's marker and the statistics.
RenderMarker ==
    /\ marker.st = "idle"
    /\ marker' = [st |-> "rendered",
                  showWarning |-> ShowWarning(WeatherDanger(markerWeather), locationDanger),
                  warningReason |-> WarningReason(markerWeather, locationDanger),
                  counted |-> CountedDangerous(markerWeather, locationDanger)]
    /\ UNCHANGED <<now, weatherVars, ingestVars, historyVars, clickVars, predictVars,
                   dangerVars, markerWeather, locationDanger, retryVars, last24Vars, legacyVars,
                   driftVars,
                   batchVars,
                   renderVars,
                   homeVars>>

\* The weather of the balloon arrives after the marker was rendered.
WeatherArrives(w) ==
    /\ marker.st = "rendered"
    /\ ~markerWeather.present
    /\ markerWeather' = [present |-> TRUE, reading |-> w]
    /\ marker' = NotRendered
    /\ UNCHANGED <<now, weatherVars, ingestVars, historyVars, clickVars, predictVars,
                   dangerVars, locationDanger, retryVars, last24Vars, legacyVars,
                   driftVars,
                   batchVars,
                   renderVars,
                   homeVars>>


----------------------------------------------------------------------------
(* The retrying fetch of services/balloonService.ts: fetchWithRetry and
   fetchBalloonData *)

\* retries = 3; fetchWithRetry is private to the module and its one caller
\* passes no second argument.
DEFAULT_RETRIES == 3
RETRY_DELAY_MS == 1000

\* What /api/balloon/hh answers to one attempt: a failure (network error,
\* non-2xx or invalid JSON), JSON that is no array, or an array of entries.
RetryResponses ==
    {[ok |-> FALSE, isArray |-> FALSE, data |-> <<>>],
     [ok |-> TRUE, isArray |-> FALSE, data |-> <<>>],
     [ok |-> TRUE, isArray |-> TRUE, data |-> <<>>],
     [ok |-> TRUE, isArray |-> TRUE, data |-> <<Arr(<<Num(10), Num(20), Num(5)>>)>>],
     [ok |-> TRUE, isArray |-> TRUE,
      data |-> <<Arr(<<Num(10), Num(200), Num(5)>>), Arr(<<Num(20), Num(10), Num(5)>>)>>]}

\* delay(1000): the same wait before every further attempt
RetryDelay_constant(i) == RETRY_DELAY_MS

\* Line 31: delay(1000 * (i + 1))
RetryDelay(i) == RETRY_DELAY_MS * (i + 1)

\* Line 30: if (i === retries - 1) throw error
LastAttempt(i, retries) == i = retries - 1

\* fetchBalloonData without its catch: the rejection reaches the caller
DataRejects_rethrown(retryRejected) == retryRejected

\* Lines 39-44: fetchBalloonData catches what fetchWithRetry throws
DataRejects(retryRejected) == FALSE

\* rejected: fetchWithRetry rejected; dataRejected and out: how the promise
\* of fetchBalloonData settled.
NoRetry ==
    [st |-> "idle", i |-> 0, startedAt |-> <<>>, failedAt |-> <<>>, waits |-> <<>>,
     wakeAt |-> 0, rejected |-> FALSE, dataRejected |-> FALSE, out |-> <<>>]

RetryIdle == retry = NoRetry

\* Lines 37-40 and 15-18: fetchBalloonData calls fetchWithRetry, which starts
\* its first attempt.
CallFetchBalloonData ==
    /\ retry.st = "idle"
    /\ retry' = [retry EXCEPT !.st = "fetching", !.i = 0, !.startedAt = <<now>>]
    /\ UNCHANGED <<now, weatherVars, ingestVars, historyVars, clickVars, predictVars,
                   dangerVars, markerVars, last24Vars, legacyVars,
                   driftVars,
                   batchVars,
                   renderVars,
                   homeVars>>

\* Lines 18-31 and 41-44: the attempt is answered.  A success ends the loop;
\* a failure of the last attempt is rethrown, and fetchBalloonData catches it
\* and resolves with []; any other failure starts the delay.
AttemptAnswered(resp) ==
    /\ retry.st = "fetching"
    /\ retry' =
         IF resp.ok
         THEN [retry EXCEPT !.st = "done", !.rejected = FALSE,
                            !.out = IF resp.isArray THEN IngestService(resp.data) ELSE <<>>]
         ELSE IF LastAttempt(retry.i, DEFAULT_RETRIES)
              THEN [retry EXCEPT !.st = "done", !.rejected = TRUE,
                                 !.dataRejected = DataRejects(TRUE), !.out = <<>>,
                                 !.failedAt = Append(@, now)]
              ELSE [retry EXCEPT !.st = "delaying",
                                 !.failedAt = Append(@, now),
                                 !.waits = Append(@, RetryDelay(retry.i)),
                                 !.wakeAt = now + RetryDelay(retry.i)]
    /\ UNCHANGED <<now, weatherVars, ingestVars, historyVars, clickVars, predictVars,
                   dangerVars, markerVars, last24Vars, legacyVars,
                   driftVars,
                   batchVars,
                   renderVars,
                   homeVars>>

\* Lines 31, 16-18 and 34: the delay is over and the next attempt starts, or
\* the loop is left and [] returned.
DelayElapsed ==
    /\ retry.st = "delaying"
    /\ now >= retry.wakeAt
    /\ retry' = IF retry.i + 1 < DEFAULT_RETRIES
                THEN [retry EXCEPT !.st = "fetching", !.i = @ + 1,
                                   !.startedAt = Append(@, now)]
                ELSE [retry EXCEPT !.st = "done", !.i = @ + 1, !.out = <<>>]
    /\ UNCHANGED <<now, weatherVars, ingestVars, historyVars, clickVars, predictVars,
                   dangerVars, markerVars, last24Vars, legacyVars,
                   driftVars,
                   batchVars,
                   renderVars,
                   homeVars>>

\* Time passes while an attempt or a delay is under way.
RetryTick(d) ==
    /\ retry.st \in {"fetching", "delaying"}
    /\ now + d <= StartTime + MaxRetryTime
    /\ now' = now + d
    /\ UNCHANGED <<weatherVars, ingestVars, historyVars, clickVars, unitVars>>


----------------------------------------------------------------------------
(* fetchLast24Hours of services/balloonService.ts *)

LAST_HOURS == 24

\* The hours 0..23 whose fetchWithRetry fails on every attempt.
FailingHourSets ==
    {F \in SUBSET (0..(LAST_HOURS - 1)) : Cardinality(F) <= MaxFailing}
    \cup {0..(LAST_HOURS - 1)}

\* What /api/balloon/hh holds for hour h when it answers.
SnapshotOfHour(h) ==
    IF h % 2 = 1 /\ h > 20 THEN <<>>
    ELSE <<Arr(<<Num(h), Num(h), Num(5)>>), Arr(<<Num(h), Num(100 + h), Num(5)>>)>>

\* Lines 37-45 for hour h: how the promise of fetchBalloonData(h) settles
SettledOfHour(h, failing) ==
    IF h \in failing
    THEN [rejected |-> DataRejects(TRUE), value |-> <<>>]
    ELSE [rejected |-> FALSE, value |-> IngestService(SnapshotOfHour(h))]

\* Lines 52-53: result.status === 'fulfilled' && result.value.length > 0
KeptByLast24(result) == ~result.rejected /\ Len(result.value) > 0

RECURSIVE ValuesOf(_)
ValuesOf(results) ==
    IF results = <<>> THEN <<>>
    ELSE <<results[1].value>> \o ValuesOf(Tail(results))

\* Lines 48-55: Promise.allSettled, filter, map
Last24Hours(failing) ==
    LET results == [i \in 1..LAST_HOURS |-> SettledOfHour(i - 1, failing)]
    IN  ValuesOf(SelectSeq(results, KeptByLast24))

NoLast24 == [st |-> "idle", failing |-> {}, rejected |-> FALSE, out |-> <<>>]

Last24Idle == last24 = NoLast24

\* fetchLast24Hours runs to its end; Promise.allSettled does not reject.
FetchLast24Hours(failing) ==
    /\ last24.st = "idle"
    /\ last24' = [st |-> "done", failing |-> failing, rejected |-> FALSE,
                  out |-> Last24Hours(failing)]
    /\ UNCHANGED <<now, weatherVars, ingestVars, historyVars, clickVars, predictVars,
                   dangerVars, markerVars, retryVars, legacyVars,
                   driftVars,
                   batchVars,
                   renderVars,
                   homeVars>>

----------------------------------------------------------------------------
(* The earlier fetchBalloonHistory(hours) *)

\* What the upstream answers for an hour: a failure, or JSON that is null, an
\* array, or an object with lat and lon.
LegacyHourResponses ==
    {[ok |-> FALSE, json |-> "none", lat |-> Undefined, lon |-> Undefined],
     [ok |-> TRUE, json |-> "null", lat |-> Undefined, lon |-> Undefined],
     [ok |-> TRUE, json |-> "array", lat |-> Undefined, lon |-> Undefined],
     [ok |-> TRUE, json |-> "object", lat |-> Num(11), lon |-> Num(21)]}

\* Lines 58-81: what the promise of one hour resolves with; a failure gives
\* the fallback position 0, 0.
LegacyHourData(resp, hour, t) ==
    IF ~resp.ok
    THEN [json |-> "object", lat |-> Num(0), lon |-> Num(0), timestamp |-> t - hour * HOUR_MS]
    ELSE [json |-> resp.json, lat |-> resp.lat, lon |-> resp.lon, timestamp |-> 0]

\* Lines 86-90
LegacyPosition(data, t) ==
    [lat |-> OrZero(data.lat).v, lon |-> OrZero(data.lon).v,
     timestamp |-> IF data.timestamp = 0 THEN t ELSE data.timestamp]

\* Lines 84-95: reading a field of null throws, and the catch returns no
\* positions.
LegacyHistoryOf(hours, resps, t) ==
    LET datas == [i \in 1..Len(hours) |-> LegacyHourData(resps[i], hours[i], t)]
    IN  IF \E i \in 1..Len(hours) : datas[i].json = "null"
        THEN <<>>
        ELSE [i \in 1..Len(hours) |-> LegacyPosition(datas[i], t)]

NoLegacyHistory == [st |-> "idle", resps |-> <<>>, rejected |-> FALSE, positions |-> <<>>]

LegacyIdle == legacyHistory = NoLegacyHistory

\* The earlier fetchBalloonHistory(histArgs.hours) runs to its end.
FetchBalloonHistoryLegacy(resps) ==
    /\ legacyHistory.st = "idle"
    /\ legacyHistory' = [st |-> "done", resps |-> resps, rejected |-> FALSE,
                         positions |-> LegacyHistoryOf(histArgs.hours, resps, now)]
    /\ UNCHANGED <<now, weatherVars, ingestVars, historyVars, clickVars, predictVars,
                   dangerVars, markerVars, retryVars, last24Vars,
                   driftVars,
                   batchVars,
                   renderVars,
                   homeVars>>

----------------------------------------------------------------------------
(* Wind-drift extrapolation.  Latitude and longitude are in millionths of a
   degree, the altitude in tenths of a kilometre, the wind speed in m/s. *)

DRIFT_STEPS == 20
ALT_EQUILIBRIUM == 50
ALT_STEP == 1
ALT_MIN == 1
ALT_MAX == 100

\* 1000 * sin and 1000 * cos of a direction in degrees
Sin1000(deg) ==
    CASE deg = 0 -> 0 [] deg = 45 -> 707 [] deg = 90 -> 1000 [] deg = 135 -> 707
      [] deg = 180 -> 0 [] deg = 225 -> -707 [] deg = 270 -> -1000 [] deg = 315 -> -707

Cos1000(deg) == Sin1000((deg + 90) % 360)

WindDirections == {0, 45, 90, 135, 180, 225, 270, 315}
WindSpeeds == {0, 5, 20}

NoWind == [present |-> FALSE, speed |-> 0, directionDeg |-> 0]

WindSamples ==
    {NoWind} \cup {[present |-> TRUE, speed |-> v, directionDeg |-> d] :
                      v \in WindSpeeds, d \in WindDirections}

DriftStarts ==
    {[lat |-> 10000000, lon |-> 20000000, alt |-> 30],
     [lat |-> -5000000, lon |-> 179000000, alt |-> 50],
     [lat |-> 0, lon |-> 0, alt |-> 99]}

\* The displacement taken from the direction alone
DLon_noSpeed(directionDeg, speed) == Sin1000(directionDeg)

\* dLon = sin(direction) * speed * k, k = 0.001
DLon(directionDeg, speed) == Sin1000(directionDeg) * speed

\* dLat = cos(direction) * speed * k
DLat(directionDeg, speed) == Cos1000(directionDeg) * speed

Clamp(x, lo, hi) == IF x < lo THEN lo ELSE IF x > hi THEN hi ELSE x

\* Above 5 km the altitude goes down by a step, else up, within [0.1, 10] km
DriftAlt(alt) ==
    Clamp(IF alt > ALT_EQUILIBRIUM THEN alt - ALT_STEP ELSE alt + ALT_STEP, ALT_MIN, ALT_MAX)

\* One step of the drift
DriftStep(pos, wind) ==
    [lat |-> pos.lat + DLat(wind.directionDeg, wind.speed),
     lon |-> pos.lon + DLon(wind.directionDeg, wind.speed),
     alt |-> DriftAlt(pos.alt)]

NoDrift ==
    [st |-> "idle", wind |-> NoWind, start |-> [lat |-> 0, lon |-> 0, alt |-> 0],
     pos |-> [lat |-> 0, lon |-> 0, alt |-> 0], n |-> 0]

DriftIdle == drift = NoDrift

\* The prediction is asked for: unavailable without a wind sample.
StartDrift ==
    /\ drift.st = "idle"
    /\ drift' = [drift EXCEPT !.st = IF drift.wind.present THEN "running" ELSE "unavailable"]
    /\ UNCHANGED <<now, weatherVars, ingestVars, historyVars, clickVars, predictVars,
                   dangerVars, markerVars, retryVars, last24Vars, legacyVars,
                   batchVars,
                   renderVars,
                   homeVars>>

\* One iteration, fed with the output of the one before.
DriftIteration ==
    /\ drift.st = "running"
    /\ drift' = [drift EXCEPT !.pos = DriftStep(drift.pos, drift.wind),
                              !.n = @ + 1,
                              !.st = IF drift.n + 1 = DRIFT_STEPS THEN "done" ELSE "running"]
    /\ UNCHANGED <<now, weatherVars, ingestVars, historyVars, clickVars, predictVars,
                   dangerVars, markerVars, retryVars, last24Vars, legacyVars,
                   batchVars,
                   renderVars,
                   homeVars>>

----------------------------------------------------------------------------
(* The Map's weather effect: one batch of fetchWeatherData calls per balloon
   list, joined by Promise.all.  Each call is the promise it returns; the
   limiter inside it is the subject of Spec. *)

MaxBatches == 3

\* The sample the Map stores for a balloon whose fetch rejected
MAP_FALLBACK_WEATHER == [temperature |-> Num(-20), pressure |-> Num(500)]

\* The balloons prop: lists of balloon ids
BalloonLists == {<<>>, <<1>>, <<2>>, <<1, 2>>}

\* How one fetchWeatherData call settles
FetchOutcomes ==
    {[rejected |-> FALSE, value |-> [temperature |-> Num(-35), pressure |-> Num(900)]],
     [rejected |-> TRUE, value |-> DefaultWeather]}

IdsOf(list) == {list[i] : i \in 1..Len(list)}

Unsettled == [settled |-> FALSE, entry |-> DefaultWeather]

\* try { return [id, await fetchWeatherData(...)] } catch { return [id, fallback] }
EntryOf(outcome) == IF outcome.rejected THEN MAP_FALLBACK_WEATHER ELSE outcome.value

\* A join that resolves at the first settled promise
AllSettled_any(promises) == \E id \in DOMAIN promises : promises[id].settled

\* Promise.all(weatherPromises) resolves
AllSettled(promises) == \A id \in DOMAIN promises : promises[id].settled

\* results.forEach(([id, data]) => newWeatherData[id] = data)
NewWeatherData(promises) == [id \in DOMAIN promises |-> promises[id].entry]

NoWeatherData == [id \in {} |-> DefaultWeather]

\* fetchWeather(): every fetch of the list is issued at once
NewBatch(list) ==
    [ids |-> list, promises |-> [id \in IdsOf(list) |-> Unsettled], sets |-> 0]

BatchIdle ==
    /\ balloons = <<>>
    /\ batches = <<>>
    /\ weatherData = NoWeatherData

\* The Map is rendered with a new balloons prop and the effect runs.
SetBalloons(list) ==
    /\ Len(batches) < MaxBatches
    /\ balloons' = list
    /\ batches' = IF Len(list) > 0 THEN Append(batches, NewBatch(list)) ELSE batches
    /\ UNCHANGED weatherData
    /\ UNCHANGED <<now, weatherVars, ingestVars, historyVars, clickVars, predictVars,
                   dangerVars, markerVars, retryVars, last24Vars, legacyVars, driftVars,
                   renderVars,
                   homeVars>>

\* One fetch of batch b settles; with the last one Promise.all resolves and
\* the batch's map replaces the weatherData state.
FetchSettles(b, id, outcome) ==
    /\ b \in 1..Len(batches)
    /\ id \in DOMAIN batches[b].promises
    /\ ~batches[b].promises[id].settled
    /\ LET promises == [batches[b].promises EXCEPT
                           ![id] = [settled |-> TRUE, entry |-> EntryOf(outcome)]]
       IN  IF AllSettled(promises)
           THEN /\ batches' = [batches EXCEPT ![b].promises = promises, ![b].sets = @ + 1]
                /\ weatherData' = NewWeatherData(promises)
           ELSE /\ batches' = [batches EXCEPT ![b].promises = promises]
                /\ UNCHANGED weatherData
    /\ UNCHANGED balloons
    /\ UNCHANGED <<now, weatherVars, ingestVars, historyVars, clickVars, predictVars,
                   dangerVars, markerVars, retryVars, last24Vars, legacyVars, driftVars,
                   renderVars,
                   homeVars>>

----------------------------------------------------------------------------
(* The Map of components/Map.tsx renders the result of fetchLast24Hours *)

\* hourData.every(coords => coords.length === 3 && coords.every(number))
ValidHourData(hourData) ==
    \A i \in 1..Len(hourData) :
        hourData[i].lat.t = "num" /\ hourData[i].lon.t = "num" /\ hourData[i].alt.t = "num"

\* balloonData.filter(...)
ValidData(balloonData) == SelectSeq(balloonData, ValidHourData)

NotRenderedYet == [st |-> "idle", error |-> FALSE, currentPositions |-> <<>>]

RenderIdle == rendering = NotRenderedYet

\* The page passes a non-empty balloonData to the Map, whose effect runs
\* loadData: the markers are made from validData[0].
LoadData ==
    /\ last24.st = "done"
    /\ Len(last24.out) > 0
    /\ rendering.st = "idle"
    /\ LET validData == ValidData(last24.out)
       IN  rendering' = IF Len(validData) = 0
                        THEN [st |-> "done", error |-> TRUE, currentPositions |-> <<>>]
                        ELSE [st |-> "done", error |-> FALSE, currentPositions |-> validData[1]]
    /\ UNCHANGED <<now, weatherVars, ingestVars, historyVars, clickVars, predictVars,
                   dangerVars, markerVars, retryVars, last24Vars, legacyVars, driftVars,
                   batchVars,
                   homeVars>>

----------------------------------------------------------------------------
(* The Home page: fetchData at mount and at every tick of its interval *)

MaxRefreshes == 4

\* What /api/balloons answers to a refresh.
HomeUpstreams ==
    {NoUpstream,
     [ok |-> TRUE, isArray |-> FALSE, data |-> <<>>],
     [ok |-> TRUE, isArray |-> TRUE, data |-> <<>>],
     [ok |-> TRUE, isArray |-> TRUE, data |-> <<Arr(<<Num(10), Num(20), Num(5)>>)>>],
     [ok |-> TRUE, isArray |-> TRUE,
      data |-> <<Arr(<<Num(11), Num(21), Num(5)>>), Arr(<<Num(-30), Num(40), Num(7)>>)>>]}

\* fetchCurrentBalloons(): rejects when the response is not ok or no array
CurrentBalloons(up) ==
    IF up.ok /\ up.isArray
    THEN [rejected |-> FALSE, out |-> IngestUtils(up.data)]
    ELSE [rejected |-> TRUE, out |-> <<>>]

\* useState([]) and useState(null); no fetchData has run
NoHome == [balloons |-> <<>>, error |-> FALSE, pending |-> 0, outcomes |-> <<>>]

HomeIdle == home = NoHome

\* if (error) the error screen, else the Map with the balloons
Screen(h) == IF h.error THEN "error" ELSE "map"

\* fetchData() is called, at mount or by setInterval, and awaits the fetch.
StartRefresh ==
    /\ home.pending + Len(home.outcomes) < MaxRefreshes
    /\ home' = [home EXCEPT !.pending = @ + 1]
    /\ UNCHANGED <<now, weatherVars, ingestVars, historyVars, clickVars, predictVars,
                   dangerVars, markerVars, retryVars, last24Vars, legacyVars, driftVars,
                   batchVars, renderVars>>

\* The fetch of one fetchData settles: setBalloons(data), or setError in the
\* catch.
RefreshSettles(up) ==
    /\ home.pending > 0
    /\ LET r == CurrentBalloons(up)
       IN  home' = IF r.rejected
                   THEN [home EXCEPT !.error = TRUE, !.pending = @ - 1,
                                     !.outcomes = Append(@, "failed")]
                   ELSE [home EXCEPT !.balloons = r.out, !.pending = @ - 1,
                                     !.outcomes = Append(@, "ok")]
    /\ UNCHANGED <<now, weatherVars, ingestVars, historyVars, clickVars, predictVars,
                   dangerVars, markerVars, retryVars, last24Vars, legacyVars, driftVars,
                   batchVars, renderVars>>

UnitIdle ==
    /\ PredictIdle
    /\ DangerIdle
    /\ MarkerIdle
    /\ RetryIdle
    /\ Last24Idle
    /\ LegacyIdle
    /\ DriftIdle
    /\ BatchIdle
    /\ RenderIdle
    /\ HomeIdle

----------------------------------------------------------------------------
(* Initial states and specifications *)

WeatherInit ==
    /\ apiKey \in BOOLEAN
    /\ weatherRequestQueue = [k \in Keys |-> 0]
    /\ calls = [c \in CallIds |-> IdleCall]

Init ==
    /\ now = StartTime
    /\ WeatherInit
    /\ upstream = NoUpstream
    /\ ingest = IdleIngest
    /\ HistoryIdle
    /\ MapInit
    /\ UnitIdle

\* The rate limiter: the calls in any interleaving, with one failing and one
\* successful answer.
LimiterResponses ==
    {r \in Responses : r.ok /\ r.json /\ r.data.temp = Num(-35)}

Next ==
    \/ \E c \in CallIds, p \in Coords : CallFetchWeatherData(c, p[1], p[2])
    \/ \E c \in CallIds : TimerFires(c)
    \/ \E c \in CallIds, resp \in LimiterResponses : FetchCompletes(c, resp)
    \/ \E d \in TickSteps : Tick(d)

Spec == Init /\ [][Next]_vars

\* The fallback: two calls, every kind of answer.
FallbackCalls == 2

NextFallback ==
    \/ \E c \in 1..FallbackCalls, p \in Coords : CallFetchWeatherData(c, p[1], p[2])
    \/ \E c \in 1..FallbackCalls : TimerFires(c)
    \/ \E c \in 1..FallbackCalls, resp \in Responses : FetchCompletes(c, resp)
    \/ \E d \in TickSteps : Tick(d)

SpecFallback == Init /\ [][NextFallback]_vars

\* Ingestion of one upstream answer by each of the ingestion functions.
InitIngest ==
    /\ now = StartTime
    /\ WeatherInit
    /\ upstream \in Upstreams
    /\ ingest = IdleIngest
    /\ HistoryIdle
    /\ MapInit
    /\ UnitIdle

NextIngest ==
    \/ FetchCurrentBalloons
    \/ FetchWithRetryAttempt
    \/ FetchCurrentBalloonsLegacy

SpecIngest == InitIngest /\ [][NextIngest]_vars

\* The hours history is asked for: distinct hour offsets in any order.
HourLists ==
    {hs \in SeqsUpTo(1..MaxHours, MaxHours) :
        \A i, j \in 1..Len(hs) : i # j => hs[i] # hs[j]}

\* One call of fetchBalloonHistory, its hours answered in any order.
InitHistory ==
    /\ now = StartTime
    /\ apiKey = TRUE
    /\ weatherRequestQueue = [k \in Keys |-> 0]
    /\ calls = [c \in CallIds |-> IdleCall]
    /\ upstream = NoUpstream
    /\ ingest = IdleIngest
    /\ histArgs \in [hours : HourLists, target : Targets]
    /\ hourResp = <<>>
    /\ hourPoint = <<>>
    /\ history = NoHistory
    /\ MapInit
    /\ UnitIdle

NextHistory ==
    \/ CallFetchBalloonHistory
    \/ \E i \in 1..MaxHours, resp \in HourResponses : HourCompletes(i, resp)
    \/ HistorySettles
    \/ \E d \in TickSteps : HistoryTick(d)

SpecHistory == InitHistory /\ [][NextHistory]_vars

\* Clicks on the balloons of the map, their histories arriving in any order.
NextClick ==
    \/ \E b \in Balloons : ClickBalloon(b)
    \/ \E i \in 1..MaxClicks, resps \in ClickAnswers :
          HistoryResolves(i, resps)

SpecClick == Init /\ [][NextClick]_vars

\* predictNextPosition and the seeding applied to every path.
InitPredict ==
    /\ now = StartTime
    /\ WeatherInit
    /\ upstream = NoUpstream
    /\ ingest = IdleIngest
    /\ HistoryIdle
    /\ MapInit
    /\ path \in Paths
    /\ predictCall = NotPredicted
    /\ seeded = NotSeeded
    /\ DangerIdle
    /\ MarkerIdle
    /\ RetryIdle
    /\ Last24Idle
    /\ LegacyIdle
    /\ DriftIdle
    /\ BatchIdle
    /\ RenderIdle
    /\ HomeIdle

NextPredict ==
    \/ CallPredictNextPosition
    \/ \E b \in Balloons : SeedPrediction(b)

SpecPredict == InitPredict /\ [][NextPredict]_vars

\* checkDangerConditions applied to every reading.
InitDanger ==
    /\ now = StartTime
    /\ WeatherInit
    /\ upstream = NoUpstream
    /\ ingest = IdleIngest
    /\ HistoryIdle
    /\ MapInit
    /\ PredictIdle
    /\ weatherArg \in WeatherReadings
    /\ verdict = NoVerdict
    /\ MarkerIdle
    /\ RetryIdle
    /\ Last24Idle
    /\ LegacyIdle
    /\ DriftIdle
    /\ BatchIdle
    /\ RenderIdle
    /\ HomeIdle

NextDanger ==
    \/ CallCheckDangerConditions
    \/ CallCheckDangerConditionsLegacy

SpecDanger == InitDanger /\ [][NextDanger]_vars

\* The marker of one balloon rendered for every weather and geofence verdict.
InitMarker ==
    /\ now = StartTime
    /\ WeatherInit
    /\ upstream = NoUpstream
    /\ ingest = IdleIngest
    /\ HistoryIdle
    /\ MapInit
    /\ PredictIdle
    /\ DangerIdle
    /\ markerWeather \in MarkerWeathers
    /\ locationDanger \in LocationVerdicts
    /\ marker = NotRendered
    /\ RetryIdle
    /\ Last24Idle
    /\ LegacyIdle
    /\ DriftIdle
    /\ BatchIdle
    /\ RenderIdle
    /\ HomeIdle

NextMarker ==
    \/ RenderMarker
    \/ \E w \in WeatherReadings : WeatherArrives(w)

SpecMarker == InitMarker /\ [][NextMarker]_vars

\* One call of fetchBalloonData, every attempt answered in any way.
NextRetry ==
    \/ CallFetchBalloonData
    \/ \E resp \in RetryResponses : AttemptAnswered(resp)
    \/ DelayElapsed
    \/ \E d \in RetrySteps : RetryTick(d)

SpecRetry == Init /\ [][NextRetry]_vars

\* Upstream failures at each boundary: one of fetchBalloonHistory, its earlier
\* version, fetchBalloonData and fetchLast24Hours is called.
NoneCalled ==
    /\ history.st = "idle"
    /\ legacyHistory.st = "idle"
    /\ retry.st = "idle"
    /\ last24.st = "idle"

NextDegrade ==
    \/ (NoneCalled /\ CallFetchBalloonHistory)
    \/ \E i \in 1..MaxHours, resp \in HourResponses : HourCompletes(i, resp)
    \/ HistorySettles
    \/ \E d \in TickSteps : HistoryTick(d)
    \/ \E resps \in [1..Len(histArgs.hours) -> LegacyHourResponses] :
          NoneCalled /\ FetchBalloonHistoryLegacy(resps)
    \/ (NoneCalled /\ CallFetchBalloonData)
    \/ \E resp \in RetryResponses : AttemptAnswered(resp)
    \/ DelayElapsed
    \/ \E d \in RetrySteps : RetryTick(d)
    \/ \E failing \in FailingHourSets : NoneCalled /\ FetchLast24Hours(failing)
    \/ LoadData

SpecDegrade == InitHistory /\ [][NextDegrade]_vars

\* The wind-drift prediction of every start position under every wind.
InitDrift ==
    /\ now = StartTime
    /\ WeatherInit
    /\ upstream = NoUpstream
    /\ ingest = IdleIngest
    /\ HistoryIdle
    /\ MapInit
    /\ PredictIdle
    /\ DangerIdle
    /\ MarkerIdle
    /\ RetryIdle
    /\ Last24Idle
    /\ LegacyIdle
    /\ BatchIdle
    /\ RenderIdle
    /\ HomeIdle
    /\ \E w \in WindSamples, p \in DriftStarts :
          drift = [NoDrift EXCEPT !.wind = w, !.start = p, !.pos = p]

NextDrift ==
    \/ StartDrift
    \/ DriftIteration

SpecDrift == InitDrift /\ [][NextDrift]_vars

\* The weather batches of every sequence of balloon lists.
InitBatch == Init /\ apiKey

NextBatch ==
    \/ \E list \in BalloonLists : SetBalloons(list)
    \/ \E b \in 1..MaxBatches, id \in BalloonIds, outcome \in FetchOutcomes :
          FetchSettles(b, id, outcome)

SpecBatch == InitBatch /\ [][NextBatch]_vars

\* The refreshes of the Home page, each answered in any way.
InitHome == Init /\ apiKey

NextHome ==
    \/ StartRefresh
    \/ \E up \in HomeUpstreams : RefreshSettles(up)

SpecHome == InitHome /\ [][NextHome]_vars

----------------------------------------------------------------------------
(* Properties of the rate limiter *)

Dispatched(c) == calls[c].dispatchedAt # 0
Called(c) == calls[c].st # "idle"
Delayed(c) == Called(c) /\ (calls[c].st = "waiting" \/ calls[c].dispatchedAt > calls[c].calledAt)

\* Coordinates rounded to 2 decimals agree.
SameRoundedKey(a, b) ==
    /\ (calls[a].lat + 5) \div 10 = (calls[b].lat + 5) \div 10
    /\ (calls[a].lon + 5) \div 10 = (calls[b].lon + 5) \div 10

Abs(x) == IF x < 0 THEN -x ELSE x

\* C1: when exactly two calls were made for a rounded key, within 1000 ms of
\* each other, their two upstream dispatches are at least 1000 ms apart.
C1_TwoCallsGap ==
    \A a, b \in CallIds :
        ( /\ a < b /\ Dispatched(a) /\ Dispatched(b) /\ SameRoundedKey(a, b)
          /\ calls[b].calledAt - calls[a].calledAt < 1000
          /\ \A c \in CallIds \ {a, b} : Called(c) => ~SameRoundedKey(a, c) )
        => Abs(calls[b].dispatchedAt - calls[a].dispatchedAt) >= 1000

\* Two calls for one key, the second made during the first one's interval and
\* dispatched after its wait.
C1_Witness ==
    \E a, b \in CallIds :
        /\ a < b /\ Dispatched(a) /\ Dispatched(b) /\ SameRoundedKey(a, b)
        /\ calls[b].calledAt - calls[a].calledAt \in 1..999
        /\ calls[b].dispatchedAt > calls[b].calledAt
        /\ \A c \in CallIds \ {a, b} : ~Called(c)

\* C2: for any number of calls, any two upstream dispatches for one rounded
\* key are at least MIN_REQUEST_INTERVAL (1000 ms) apart.
C2_NoBurst ==
    \A a, b \in CallIds :
        (a # b /\ Dispatched(a) /\ Dispatched(b) /\ SameRoundedKey(a, b))
        => Abs(calls[b].dispatchedAt - calls[a].dispatchedAt) >= 1000

\* C3: a call is delayed only by a request for its own rounded key that was
\* dispatched less than 1000 ms before the call was made; requests for other
\* keys, recent or pending, never delay it.
C3_KeysIndependent ==
    \A c \in CallIds :
        Delayed(c) =>
            \E d \in CallIds \ {c} :
                /\ SameRoundedKey(c, d) /\ Dispatched(d)
                /\ calls[d].dispatchedAt <= calls[c].calledAt
                /\ calls[c].calledAt - calls[d].dispatchedAt < 1000

\* A call made while a request for another key is less than 1000 ms old (or
\* still pending) is dispatched at once.
C3_Witness ==
    \E c, d \in CallIds :
        /\ Called(d) /\ Dispatched(c) /\ ~SameRoundedKey(c, d)
        /\ calls[d].calledAt <= calls[c].calledAt
        /\ calls[c].calledAt - calls[d].calledAt < 1000
        /\ calls[c].dispatchedAt = calls[c].calledAt
        /\ (calls[d].st = "waiting" \/ Dispatched(d))

----------------------------------------------------------------------------
(* Properties of the fallback *)

\* The payload lacks a numeric main.temp or main.pressure.
Malformed(data) ==
    \/ data.isNull
    \/ ~data.hasMain
    \/ data.temp.t # "num"
    \/ data.pressure.t # "num"

\* C4: fetchWeatherData never rejects, and it resolves to the default sample
\* (20, 1013) whenever the API key is missing, the request fails, the response
\* is non-2xx, or the payload is malformed.
C4_FallbackOnFailure ==
    \A c \in CallIds :
        calls[c].st = "done" =>
            /\ ~calls[c].result.rejected
            /\ ( \/ ~apiKey
                 \/ calls[c].resp.net = "error"
                 \/ ~calls[c].resp.ok
                 \/ ~calls[c].resp.json
                 \/ Malformed(calls[c].resp.data) )
               => calls[c].result.value = DefaultWeather

----------------------------------------------------------------------------
(* Properties of ingestion *)

IngestedBy(f) ==
    ingest.st = "done" /\ ingest.by = f /\ ~ingest.rejected /\ upstream.ok /\ upstream.isArray

\* A triple of numbers with lat in [-90,90] and lon in [-180,180], lat and lon
\* being the elements at latAt and lonAt.
PassesRangeCheck(e, latAt, lonAt) ==
    /\ e.kind = "array" /\ Len(e.elems) = 3
    /\ \A i \in 1..3 : e.elems[i].t = "num"
    /\ e.elems[latAt].v >= -90 /\ e.elems[latAt].v <= 90
    /\ e.elems[lonAt].v >= -180 /\ e.elems[lonAt].v <= 180

PassesAsLatLon(e) == PassesRangeCheck(e, 1, 2)
PassesAsLonLat(e) == PassesRangeCheck(e, 2, 1)

Triples(entries) == [i \in 1..Len(entries) |-> entries[i].elems]
Positions(out, latAt, lonAt) ==
    [k \in 1..Len(out) |->
        IF latAt = 1 THEN <<out[k].lat, out[k].lon, out[k].alt>>
                     ELSE <<out[k].lon, out[k].lat, out[k].alt>>]

\* C5: the balloons an ingestion returns are, in order, exactly the input
\* triples that pass the range check and the number check.
C5_IngestKeepsExactlyValid ==
    /\ IngestedBy("utils") =>
          Positions(ingest.out, 1, 2) = Triples(SelectSeq(upstream.data, PassesAsLatLon))
    /\ IngestedBy("service") =>
          Positions(ingest.out, 2, 1) = Triples(SelectSeq(upstream.data, PassesAsLonLat))

\* The part of C5 that is about the filter of fetchWithRetry.
ServiceKeepsExactlyValid ==
    IngestedBy("service") =>
        Positions(ingest.out, 2, 1) = Triples(SelectSeq(upstream.data, PassesAsLonLat))

SuppliesPosition(e, lat, lon) ==
    \/ /\ e.kind = "array" /\ Len(e.elems) >= 2
       /\ e.elems[1] = lat /\ e.elems[2] = lon
    \/ /\ e.kind = "object"
       /\ e.elems[1] = lat /\ e.elems[2] = lon

InRange(lat, lon) ==
    /\ lat.t = "num" /\ lat.v >= -90 /\ lat.v <= 90
    /\ lon.t = "num" /\ lon.v >= -180 /\ lon.v <= 180

\* C7: every balloon that enters the system has the lat and lon of an input
\* entry that holds them as numbers in range; no entry with a missing,
\* non-numeric or out-of-range coordinate yields a balloon.
C7_NeverCoerced ==
    \A f \in {"utils", "legacy"} :
        IngestedBy(f) =>
            \A k \in 1..Len(ingest.out) :
                /\ InRange(ingest.out[k].lat, ingest.out[k].lon)
                /\ \E i \in 1..Len(upstream.data) :
                      SuppliesPosition(upstream.data[i], ingest.out[k].lat, ingest.out[k].lon)

----------------------------------------------------------------------------
(* Properties of history matching *)

\* The positions a snapshot holds: its entries whose lat and lon are numbers.
SnapshotPositions(data) ==
    {<<data[i].elems[1].v, data[i].elems[2].v>> :
        i \in {j \in 1..Len(data) :
                 /\ data[j].kind = "array" /\ Len(data[j].elems) >= 2
                 /\ data[j].elems[1].t = "num" /\ data[j].elems[2].t = "num"}}

PositionsOfHour(i) ==
    IF hourResp[i].ok /\ hourResp[i].isArray THEN SnapshotPositions(hourResp[i].data) ELSE {}

Near(p, target) == DistanceSq(p[1], p[2], target) < 25

Answered(i) == i \in 1..Len(hourPoint) /\ hourPoint[i] # Pending

\* C9: a snapshot contributes at most one point, its position nearest to the
\* target, and contributes it if and only if that minimum distance is strictly
\* below 5 degrees; a snapshot that holds the target itself yields the target.
C9_NearestWithinThreshold ==
    \A i \in 1..Len(hourPoint) :
        Answered(i) =>
            LET P == PositionsOfHour(i)
                pt == hourPoint[i]
                t == histArgs.target
            IN  /\ pt.isNull <=> (\A p \in P : ~Near(p, t))
                /\ ~pt.isNull =>
                      /\ <<pt.lat, pt.lon>> \in P
                      /\ \A q \in P : DistanceSq(pt.lat, pt.lon, t) <= DistanceSq(q[1], q[2], t)
                /\ t \in P => (~pt.isNull /\ <<pt.lat, pt.lon>> = t)

\* C10: fetchBalloonHistory resolves, never rejects, and resolves with an
\* empty sequence when hours is empty or when no snapshot has a position
\* within the threshold of the target.
C10_EmptyWhenNoMatch ==
    history.st = "done" =>
        /\ ~history.rejected
        /\ (\A i \in 1..Len(histArgs.hours) :
                \A p \in PositionsOfHour(i) : ~Near(p, histArgs.target))
           => history.positions = <<>>

\* The hours of the call whose snapshot matched.
MatchedHours == {i \in 1..Len(hourPoint) : ~hourPoint[i].isNull}

\* The clock reading a point's timestamp was synthesized from.
ClockOf(p, hour) == p.timestamp + hour * HOUR_MS

\* positions lists the points of the matched hours, one each, in the order f
ListsMatched(f) ==
    /\ \A k \in DOMAIN f : history.positions[k] = hourPoint[f[k]]
    /\ \A i \in MatchedHours : \E k \in DOMAIN f : f[k] = i
    /\ \A k, l \in DOMAIN f : k # l => f[k] # f[l]

\* C11: the result holds exactly one point per snapshot that matched, each
\* with the timestamp (clock reading) - hour * 3600000, in ascending order of
\* timestamp, the largest hour offset first, whatever the order in which the
\* hours were answered.
C11_OnePointPerMatchAscending ==
    history.st = "done" =>
        /\ Len(history.positions) = Cardinality(MatchedHours)
        /\ \E f \in [1..Len(history.positions) -> 1..Len(hourPoint)] :
              /\ ListsMatched(f)
              /\ \A k \in DOMAIN f :
                    /\ ClockOf(history.positions[k], histArgs.hours[f[k]]) >= StartTime
                    /\ ClockOf(history.positions[k], histArgs.hours[f[k]]) <= now
              /\ \A k, l \in DOMAIN f :
                    k < l => /\ history.positions[k].timestamp <= history.positions[l].timestamp
                             /\ histArgs.hours[f[k]] > histArgs.hours[f[l]]

\* Two hours matched, the one with the larger offset having been asked for
\* later in hours and answered later than the other.
C11_Witness ==
    /\ history.st = "done"
    /\ Len(history.positions) = 2
    /\ \E i, j \in MatchedHours :
          /\ i > j
          /\ histArgs.hours[i] > histArgs.hours[j]
          /\ ClockOf(hourPoint[i], histArgs.hours[i]) > ClockOf(hourPoint[j], histArgs.hours[j])

----------------------------------------------------------------------------
(* Properties of the click handler *)

\* The j-th oldest of the points, by timestamp.
Older(positions, p) == {i \in 1..Len(positions) : positions[i].timestamp < p.timestamp}

PathIsOldestFirst(past, positions, balloon) ==
    /\ Len(past) = Len(positions) + 1
    /\ past[Len(past)] = <<balloon.lat, balloon.lon>>
    /\ \A i \in 1..Len(positions) :
          past[Cardinality(Older(positions, positions[i])) + 1] = LatLon(positions[i])

\* C8: after handleBalloonClick stores a path built from k >= 1 matched
\* history points, past holds them oldest first, past[0] being the oldest,
\* followed by the balloon's current position.
C8_PastOldestFirst ==
    ( /\ lastResolved.set
      /\ Len(lastResolved.positions) >= 1
      /\ flightPaths[lastResolved.balloon].present )
    => PathIsOldestFirst(flightPaths[lastResolved.balloon].past,
                         lastResolved.positions, BalloonOf(lastResolved.balloon))

\* The part of C8 that holds: a path of one matched point.
PastOfOnePoint ==
    ( /\ lastResolved.set
      /\ Len(lastResolved.positions) = 1
      /\ flightPaths[lastResolved.balloon].present )
    => PathIsOldestFirst(flightPaths[lastResolved.balloon].past,
                         lastResolved.positions, BalloonOf(lastResolved.balloon))

----------------------------------------------------------------------------
(* Properties of the prediction *)

LastTwoOf(p) == <<p[Len(p) - 1], p[Len(p)]>>

\* C12: for every path of at least 2 points predictNextPosition returns
\* last + (last - secondLast) on lat and on lon, the same for every path with
\* these last two points; the path [(10,20),(11,22)] gives (12,24).
C12_LinearExtrapolation ==
    (predictCall.st = "returned" /\ Len(path) >= 2) =>
        LET last == path[Len(path)]
            secondLast == path[Len(path) - 1]
        IN  /\ ~predictCall.threw
            /\ predictCall.value.defined
            /\ predictCall.value.lat = last.lat + (last.lat - secondLast.lat)
            /\ predictCall.value.lon = last.lon + (last.lon - secondLast.lon)
            /\ \A q \in Paths :
                  (Len(q) >= 2 /\ LastTwoOf(q) = LastTwoOf(path))
                  => PredictNextPosition(q) = predictCall.value
            /\ ( /\ Len(path) = 2
                 /\ LatLon(path[1]) = <<10, 20>>
                 /\ LatLon(path[2]) = <<11, 22>> )
               => (predictCall.value.lat = 12 /\ predictCall.value.lon = 24)

\* A path of three points whose first point is not in line with the last two.
C12_Witness ==
    /\ predictCall.st = "returned"
    /\ Len(path) = 3
    /\ LatLon(path[1]) = <<-5, 179>>
    /\ LatLon(path[2]) = <<10, 20>>
    /\ LatLon(path[3]) = <<11, 22>>
    /\ predictCall.value = [defined |-> TRUE, lat |-> 12, lon |-> 24]

\* C13: for a path of fewer than 2 points predictNextPosition returns
\* undefined and does not throw; and the click handler produces no predicted
\* sequence other than the empty one when fewer than 2 points (history points
\* and the current position) are there to seed it.
C13_UnavailableIsAValue ==
    /\ (predictCall.st = "returned" /\ Len(path) < 2) =>
          (~predictCall.threw /\ predictCall.value = NoPrediction)
    /\ (seeded.st = "done" /\ Len(path) + 1 < 2) => seeded.predicted = <<>>

\* predictNextPosition was given the empty path and the handler no history.
C13_Witness ==
    /\ Len(path) = 0
    /\ predictCall.st = "returned"
    /\ predictCall.value = NoPrediction
    /\ seeded.st = "done"
    /\ ~seeded.stored

----------------------------------------------------------------------------
(* Properties of the danger classifier *)

ColdReading(w, limit) == w.temperature.t = "num" /\ w.temperature.v < limit
LowPressureReading(w, limit) == w.pressure.t = "num" /\ w.pressure.v < limit

\* C14: checkDangerConditions returns isDangerous = true if and only if
\* temperature < -30 or pressure < 500, both strict: -30 and 500 are not
\* dangerous, (-35, 1000) is dangerous, (10, 1013) is not.
C14_DangerousIffBelowThreshold ==
    (verdict.st = "returned" /\ verdict.by = "utils") =>
        /\ verdict.value.isDangerous <=>
              (ColdReading(weatherArg, -30) \/ LowPressureReading(weatherArg, 500))
        /\ (weatherArg.temperature = Num(-30) /\ weatherArg.pressure = Num(500))
           => ~verdict.value.isDangerous
        /\ (weatherArg.temperature = Num(-35) /\ weatherArg.pressure = Num(1000))
           => verdict.value.isDangerous
        /\ (weatherArg.temperature = Num(10) /\ weatherArg.pressure = Num(1013))
           => ~verdict.value.isDangerous

\* Exactly -30 degrees and exactly 500 hPa were classified.
C14_Witness ==
    /\ verdict.st = "returned"
    /\ verdict.by = "utils"
    /\ weatherArg = [temperature |-> Num(-30), pressure |-> Num(500)]
    /\ ~verdict.value.isDangerous

\* C15: in every verdict of the classifier, of either version, reason is set
\* if and only if isDangerous is true.
C15_ReasonIffDangerous ==
    verdict.st = "returned" => (verdict.value.reason.set <=> verdict.value.isDangerous)

\* A dangerous verdict of the cold branch, which carries a reason.
C15_Witness ==
    /\ verdict.st = "returned"
    /\ verdict.value.isDangerous
    /\ verdict.value.reason.set
    /\ verdict.value.reason.about = "temperature"
    /\ weatherArg.pressure = Num(1013)

\* C16: one reason is surfaced, that of the first condition that holds: the
\* cold temperature's when both conditions hold.
C16_FirstMatchWins ==
    (verdict.st = "returned" /\ verdict.by = "utils") =>
        LET cold == ColdReading(weatherArg, -30)
            low == LowPressureReading(weatherArg, 500)
            reason == verdict.value.reason
        IN  /\ cold => (reason.set /\ reason.about = "temperature"
                        /\ reason.value = weatherArg.temperature)
            /\ (~cold /\ low) => (reason.set /\ reason.about = "pressure"
                                  /\ reason.value = weatherArg.pressure)

\* Both conditions held and the reason is the cold temperature's.
C16_Witness ==
    /\ verdict.st = "returned"
    /\ verdict.by = "utils"
    /\ weatherArg = [temperature |-> Num(-35), pressure |-> Num(499)]
    /\ verdict.value.reason.about = "temperature"

----------------------------------------------------------------------------
(* Properties of the warning *)

\* The weather verdict of the balloon, not dangerous while it has no weather.
WeatherVerdictDangerous ==
    /\ markerWeather.present
    /\ \/ ColdReading(markerWeather.reading, -30)
       \/ LowPressureReading(markerWeather.reading, 500)

\* C17: the warning marker of a balloon is shown if and only if its weather
\* verdict is dangerous or isInDangerousArea is dangerous, the two counted
\* the same way by the statistics; and whenever it is shown a reason is there
\* to display.
C17_WarningIsEitherDanger ==
    marker.st = "rendered" =>
        /\ marker.showWarning <=> (WeatherVerdictDangerous \/ locationDanger.isDangerous)
        /\ marker.counted <=> marker.showWarning
        /\ marker.showWarning => marker.warningReason.set

\* The geofence alone raised the warning: the weather is not dangerous.
C17_Witness ==
    /\ marker.st = "rendered"
    /\ marker.showWarning
    /\ locationDanger.isDangerous
    /\ markerWeather.present
    /\ ~WeatherVerdictDangerous
    /\ marker.warningReason.about = "location"

----------------------------------------------------------------------------
(* Properties of the retrying fetch *)

RECURSIVE Doubled(_, _)
Doubled(base, k) == IF k = 0 THEN base ELSE 2 * Doubled(base, k - 1)

----------------------------------------------------------------------------
(* Properties of the failure of the position and history upstream *)

FailedHours == {i \in 1..Len(hourResp) : ~hourResp[i].ok}

LegacyAnswered == {i \in 1..Len(legacyHistory.resps) : legacyHistory.resps[i].ok}

\* fetchBalloonHistory of utils/balloonUtils.ts: a failing hour contributes no
\* point and the other hours contribute theirs.
FailingHourContributesNothing ==
    history.st = "done" =>
        /\ ~history.rejected
        /\ \A i \in FailedHours : hourPoint[i].isNull
        /\ Len(history.positions) = Cardinality(MatchedHours)
        /\ \A i \in MatchedHours :
              \E k \in 1..Len(history.positions) : history.positions[k] = hourPoint[i]

\* fetchBalloonData resolves, with [] when every attempt has failed, and
\* fetchLast24Hours does not reject.
ServiceNeverThrows ==
    /\ retry.st = "done" =>
          (~retry.dataRejected /\ (retry.rejected => retry.out = <<>>))
    /\ last24.st = "done" => ~last24.rejected

\* C19: a failure of the upstream ends in an empty result and never in a
\* rejection: a failing hour contributes no point to the history, in either
\* version of fetchBalloonHistory, and leaves the other hours' points alone;
\* fetchBalloonData resolves with [] once its attempts are used up;
\* fetchLast24Hours does not reject.
C19_UnavailableDegradesToEmpty ==
    /\ FailingHourContributesNothing
    /\ ServiceNeverThrows
    /\ legacyHistory.st = "done" =>
          /\ ~legacyHistory.rejected
          /\ Len(legacyHistory.positions) <= Cardinality(LegacyAnswered)

----------------------------------------------------------------------------
(* Properties of the selection *)

HeldPaths == {b \in BalloonIds : flightPaths[b].present}

\* C20: whatever the clicks and however the history fetches complete,
\* flightPaths holds an entry only for the balloon that is selected, so at
\* most one entry.
C20_PathOnlyForSelected ==
    /\ \A b \in HeldPaths : selectedBalloon = b
    /\ Cardinality(HeldPaths) <= 1

\* The part of C20 that holds: a click on the selected balloon removes its
\* entry.
DeselectRemovesPath ==
    [][\A b \in BalloonIds :
          (selectedBalloon = b /\ selectedBalloon' = 0) => ~flightPaths'[b].present]_vars

----------------------------------------------------------------------------
(* Properties of the wind drift *)

\* C21: with wind speed 0 the predicted latitude and longitude do not move,
\* whatever the wind direction, at every iteration of the prediction.
C21_NoWindNoDisplacement ==
    (drift.st \in {"running", "done"} /\ drift.wind.speed = 0) =>
        /\ drift.pos.lat = drift.start.lat
        /\ drift.pos.lon = drift.start.lon
        /\ DLon(drift.wind.directionDeg, 0) = 0
        /\ DLat(drift.wind.directionDeg, 0) = 0

\* All twenty iterations were made under a still wind from the east, the
\* altitude alone having drifted.
C21_Witness ==
    /\ drift.st = "done"
    /\ drift.n = 20
    /\ drift.wind = [present |-> TRUE, speed |-> 0, directionDeg |-> 90]
    /\ drift.pos.alt # drift.start.alt
    /\ drift.pos.lon = drift.start.lon

----------------------------------------------------------------------------
(* Properties of the read and the write of the limiter's entry *)

\* Call a has read the entry of its key and not yet written it.
BetweenReadAndWrite(a) == calls[a].st = "waiting"

\* C22: a call writes the timestamp of its key before it first suspends, so
\* between its read of weatherRequestQueue[key] and its write no other call
\* for the key reads or writes the entry, also when it waits out the cooldown.
C22_ReadWriteNotInterleaved ==
    \A a, b \in CallIds :
        (a < b /\ BetweenReadAndWrite(a) /\ SameRoundedKey(a, b)) => ~Called(b)

----------------------------------------------------------------------------
(* Properties of the weather batches *)

EveryFetchCompleted(batch) == \A id \in IdsOf(batch.ids) : batch.promises[id].settled

\* C23: a batch updates the weatherData state exactly once, only after each
\* of its fetches has completed, and the update holds an entry for every
\* balloon id of the batch.
C23_BatchUpdatesOnce ==
    [][\A b \in 1..Len(batches') :
          /\ batches'[b].sets = IF EveryFetchCompleted(batches'[b]) THEN 1 ELSE 0
          /\ (b <= Len(batches) /\ batches'[b].sets > batches[b].sets)
                => /\ DOMAIN weatherData' = IdsOf(batches'[b].ids)
                   /\ \A id \in IdsOf(batches'[b].ids) :
                         weatherData'[id] = batches'[b].promises[id].entry]_vars

\* A batch of two balloons has updated the state, one of its fetches failed.
C23_Witness ==
    \E b \in 1..Len(batches) :
        /\ Len(batches[b].ids) = 2
        /\ batches[b].sets = 1
        /\ DOMAIN weatherData = IdsOf(batches[b].ids)
        /\ \E id \in DOMAIN weatherData : weatherData[id] = MAP_FALLBACK_WEATHER
        /\ \E id \in DOMAIN weatherData : weatherData[id] # MAP_FALLBACK_WEATHER

\* C28: once all batches have completed, the weatherData state holds the
\* results of the batch issued for the latest balloon list.
C28_LatestBatchWins ==
    ( /\ Len(batches) >= 2
      /\ balloons = batches[Len(batches)].ids
      /\ \A b \in 1..Len(batches) : EveryFetchCompleted(batches[b]) )
    => /\ DOMAIN weatherData = IdsOf(balloons)
       /\ \A id \in IdsOf(balloons) :
             weatherData[id] = batches[Len(batches)].promises[id].entry

----------------------------------------------------------------------------
(* Properties of the nearest match *)

\* Position i of a snapshot is an array whose first two elements are numbers.
Comparable(data, i) ==
    /\ data[i].kind = "array" /\ Len(data[i].elems) >= 2
    /\ ToNumber(data[i].elems[1]).t # "nan" /\ ToNumber(data[i].elems[2]).t # "nan"

DistanceSqAt(data, i, target) ==
    DistanceSq(ToNumber(data[i].elems[1]).v, ToNumber(data[i].elems[2]).v, target)

\* Position i is at the least distance and no earlier position is.
FirstNearest(data, i, target) ==
    /\ Comparable(data, i)
    /\ \A j \in 1..Len(data) :
          Comparable(data, j) =>
              /\ DistanceSqAt(data, i, target) <= DistanceSqAt(data, j, target)
              /\ (DistanceSqAt(data, j, target) = DistanceSqAt(data, i, target) => i <= j)

HourMatched(h) == h \in 1..Len(hourPoint) /\ hourPoint[h] # Pending /\ ~hourPoint[h].isNull

\* Two comparable positions of the snapshot of hour h are at the least distance.
TiedHour(h) ==
    \E i, j \in 1..Len(hourResp[h].data) :
        /\ i < j /\ FirstNearest(hourResp[h].data, i, histArgs.target)
        /\ Comparable(hourResp[h].data, j)
        /\ DistanceSqAt(hourResp[h].data, j, histArgs.target)
              = DistanceSqAt(hourResp[h].data, i, histArgs.target)

\* C24: of the positions of a snapshot at the least distance from the target,
\* the one that comes first in the snapshot is the one selected.
C24_FirstOfTiedIsSelected ==
    \A h \in 1..Len(hourPoint) :
        HourMatched(h) =>
            \E i \in 1..Len(hourResp[h].data) :
                /\ FirstNearest(hourResp[h].data, i, histArgs.target)
                /\ hourPoint[h].lat = ToNumber(hourResp[h].data[i].elems[1]).v
                /\ hourPoint[h].lon = ToNumber(hourResp[h].data[i].elems[2]).v

\* An hour whose snapshot holds two positions at the same least distance has
\* been matched.
C24_Witness == \E h \in 1..Len(hourPoint) : HourMatched(h) /\ TiedHour(h)

----------------------------------------------------------------------------
(* Properties of the argument of predictNextPosition *)

\* C25: after predictNextPosition has returned, with a prediction or with
\* undefined, the positions it was given and each of their elements are what
\* they were at the call.
C25_InputNotMutated ==
    predictCall.st = "returned" =>
        /\ Len(path) = Len(predictCall.given)
        /\ \A i \in 1..Len(path) : path[i] = predictCall.given[i]

\* A prediction was returned for a path of three points.
C25_Witness ==
    /\ predictCall.st = "returned"
    /\ predictCall.value.defined
    /\ Len(predictCall.given) = 3
    /\ path = predictCall.given

----------------------------------------------------------------------------
(* Properties of the snapshot rendered as current *)

\* C26: the snapshot the map renders as the current positions, validData[0]
\* of the result of fetchLast24Hours, is the snapshot of hour 0 whichever
\* hours failed or came back without valid coordinates.
C26_CurrentIsHourZero ==
    (rendering.st = "done" /\ ~rendering.error) =>
        rendering.currentPositions = IngestService(SnapshotOfHour(0))

----------------------------------------------------------------------------
(* Properties of the Home page *)

\* The last refresh that settled succeeded and an earlier one had failed.
SucceededAfterFailure ==
    /\ Len(home.outcomes) >= 2
    /\ home.outcomes[Len(home.outcomes)] = "ok"
    /\ \E i \in 1..(Len(home.outcomes) - 1) : home.outcomes[i] = "failed"

\* C27: after a refresh has failed and a later refresh has succeeded, the
\* page shows the map, not the error screen.
C27_FailedRefreshNotPermanent == SucceededAfterFailure => Screen(home) = "map"

----------------------------------------------------------------------------
(* Properties of the values fetchWeatherData returns *)

RequestFailed(resp) == resp.net = "error" \/ ~resp.ok \/ ~resp.json

\* The payload carries a number as main.temp and as main.pressure.
CarriesNumbers(data) ==
    ~data.isNull /\ data.hasMain /\ data.temp.t = "num" /\ data.pressure.t = "num"

FieldAbsent(data) ==
    \/ data.isNull
    \/ ~data.hasMain
    \/ data.temp.t \in {"undefined", "null"}
    \/ data.pressure.t \in {"undefined", "null"}

\* C29: for an OK response whose payload carries numeric main.temp and
\* main.pressure, 0 included, the result is these two values; the default
\* sample is returned only when the request fails or a field is absent.
C29_UpstreamValuesFaithful ==
    \A c \in CallIds :
        (apiKey /\ calls[c].st = "done") =>
            /\ (~RequestFailed(calls[c].resp) /\ CarriesNumbers(calls[c].resp.data))
                  => calls[c].result.value = [temperature |-> calls[c].resp.data.temp,
                                              pressure |-> calls[c].resp.data.pressure]
            /\ calls[c].result.value = DefaultWeather
                  => \/ RequestFailed(calls[c].resp)
                     \/ FieldAbsent(calls[c].resp.data)
                     \/ ( /\ CarriesNumbers(calls[c].resp.data)
                          /\ calls[c].resp.data.temp = DefaultWeather.temperature
                          /\ calls[c].resp.data.pressure = DefaultWeather.pressure )

----------------------------------------------------------------------------
(* Properties of the samples that stand in for a failed weather fetch *)

FallbackSamples == {DefaultWeather, MAP_FALLBACK_WEATHER}

\* C30: checkDangerConditions, with the thresholds -30/500 and with -40/300,
\* returns isDangerous = false for the default sample of fetchWeatherData
\* (20, 1013) and for the sample of the Map's catch (-20, 500).
C30_FallbackSamplesNotDangerous ==
    (verdict.st = "returned" /\ weatherArg \in FallbackSamples) => ~verdict.value.isDangerous

\* The sample of the Map's catch, whose pressure is the threshold itself, was
\* classified with the thresholds -30/500.
C30_Witness ==
    /\ verdict.st = "returned"
    /\ verdict.by = "utils"
    /\ weatherArg = MAP_FALLBACK_WEATHER
    /\ verdict.value = SafeVerdict

====
